---- MODULE Spec2Model ----
(***************************************************************************)
(* Model of the rug-pull risk engine: RugPullDetector.analyzeToken and the *)
(* scoring functions it calls (src/src/tokenResolver.js, lines 727-971).   *)
(*                                                                         *)
(* JavaScript numbers are IEEE-754 doubles.  Every number the scoring code *)
(* produces from integer sub-scores is a multiple of 1/10 plus an error of *)
(* a few units in the last place, so a double x is held exactly as the     *)
(* pair (tenths, eps) with                                                 *)
(*        x = tenths / 10  +  eps / (10 * 2^55).                           *)
(* In that unit the literal 0.5 is (5, 0), 0.3 is (3, -4) and 0.2 is       *)
(* (2, 4): 0.3 and 0.2 are not representable and the nearest doubles are   *)
(* 0.3 - 1/(5*2^54) and 0.2 + 1/(5*2^54).                                  *)
(***************************************************************************)
EXTENDS Integers, Sequences, FiniteSets, TLC

(***************************************************************************)
(* Bounds of the model.                                                    *)
(***************************************************************************)
\* number of analyzeToken calls the detector may have in flight
NumCalls == 2
\* getRiskLevel is swept over the integers -MaxOver .. 100 + MaxOver
MaxOver == 10
\* normalizeScore is applied to the integers -MaxNormOver .. 100 + MaxNormOver
MaxNormOver == 60
\* longest onChain.redFlags list given to the report generators
MaxOnChainFlags == 3
\* longest social.redFlags and code.redFlags list given to them
MaxOtherFlags == 2
\* longest holder list given to analyzeHolderConcentration
MaxHolders == 4
\* the longest symbols array posted to /api/bulk-check
MaxSymbols == 12
\* number of resolveSymbolToMint calls made on one TokenResolver
NumResolves == 3

Min(a, b) == IF a < b THEN a ELSE b
Max(a, b) == IF a > b THEN a ELSE b

(***************************************************************************)
(* JavaScript values of a riskScore property.                              *)
(***************************************************************************)
Num(n) == [kind |-> "number", val |-> n]
NaN == [kind |-> "NaN", val |-> 0]
Undefined == [kind |-> "undefined", val |-> 0]

\* mutant: the riskScore is used as it is
OrZeroKept(v) == v

\* v || 0 : undefined, NaN and 0 are falsy
OrZero(v) == IF v.kind = "number" /\ v.val # 0 THEN v ELSE Num(0)

\* Math.max(a, b) and Math.min(a, b): NaN when an argument is NaN or undefined
MathMax(a, b) ==
    IF a.kind = "number" /\ b.kind = "number" THEN Num(Max(a.val, b.val)) ELSE NaN
MathMin(a, b) ==
    IF a.kind = "number" /\ b.kind = "number" THEN Num(Min(a.val, b.val)) ELSE NaN

(***************************************************************************)
(* IEEE-754 double arithmetic on (tenths, eps) pairs, round-to-nearest,    *)
(* ties-to-even, for values that are 0 or lie in [0.125, 128); NaN is the   *)
(* pair marked nan.                                                        *)
(***************************************************************************)
Dbl(n, e) == [tenths |-> n, eps |-> e, nan |-> FALSE]
DblNaN == [tenths |-> 0, eps |-> 0, nan |-> TRUE]
Exact(i) == Dbl(10 * i, 0)

\* x >= 2^k, for k in -3 .. 6
GePow2(x, k) ==
    \/ 8 * x.tenths > 10 * 2^(k + 3)
    \/ 8 * x.tenths = 10 * 2^(k + 3) /\ x.eps >= 0

\* the k with 2^k <= x < 2^(k+1)
Binade(x) ==
    CHOOSE k \in -3..6 : /\ k > -3 => GePow2(x, k)
                         /\ k < 6 => ~GePow2(x, k + 1)

\* 2^m mod 20 for m >= 2
Pow2Mod20(m) == CASE m % 4 = 0 -> 16
                  [] m % 4 = 1 -> 12
                  [] m % 4 = 2 -> 4
                  [] OTHER -> 8

\* the double nearest to the real number x (53-bit significand)
RoundToDouble(x) ==
    IF x.tenths = 0 /\ x.eps = 0 THEN x
    ELSE LET k == Binade(x)
             s == 2^(k + 3)
             \* spacing of the doubles in [2^k, 2^(k+1)) is 2^(k-52) = G units
             G == 10 * s
             P == (x.tenths * Pow2Mod20(52 - k)) % 20
             R == s * (P % 10) + x.eps
             rem == R % G
             odd == ((IF P >= 10 THEN 1 ELSE 0) + (R \div G)) % 2 = 1
         IN  IF 2 * rem < G \/ (2 * rem = G /\ ~odd)
             THEN Dbl(x.tenths, x.eps - rem)
             ELSE Dbl(x.tenths, x.eps + G - rem)

\* score * weight, score an integer or NaN
FMul(score, w) ==
    IF score.kind # "number" THEN DblNaN
    ELSE RoundToDouble(Dbl(score.val * w.tenths, score.val * w.eps))
\* x + y
FAdd(x, y) ==
    IF x.nan \/ y.nan THEN DblNaN
    ELSE RoundToDouble(Dbl(x.tenths + y.tenths, x.eps + y.eps))
\* x >= t, t an integer literal; false when x is NaN
FGe(x, t) == ~x.nan /\ (x.tenths > 10 * t \/ (x.tenths = 10 * t /\ x.eps >= 0))
\* Math.round(x): nearest integer, ties towards +Infinity; NaN when x is NaN
MathRound(x) ==
    LET m == x.tenths + 5
    IN  IF x.nan THEN NaN
        ELSE IF m % 10 = 0 /\ x.eps < 0 THEN (m \div 10) - 1 ELSE m \div 10

(***************************************************************************)
(* RugPullDetector: scoring.                                               *)
(***************************************************************************)
onChainWeight == Dbl(5, 0)
socialWeight == Dbl(3, -4)
codeWeight == Dbl(2, 4)

\* mutant: the score is not clamped
normalizeScoreUnclamped(score) == score

\* mutant: the score is only floored at 0
normalizeScoreFloored(score) == MathMax(Num(0), score)

normalizeScore(score) == MathMin(Num(100), MathMax(Num(0), score))

calculateRiskScore(onChain, social, code) ==
    LET onChainScore == normalizeScore(OrZero(onChain.riskScore))
        socialScore == normalizeScore(OrZero(social.riskScore))
        codeScore == normalizeScore(OrZero(code.riskScore))
    IN  FAdd(FAdd(FMul(onChainScore, onChainWeight),
                  FMul(socialScore, socialWeight)),
             FMul(codeScore, codeWeight))

\* mutant: the level is taken of the rounded score
getRiskLevelRounded(score) ==
    IF score.nan THEN "SAFE"
    ELSE IF MathRound(score) >= 80 THEN "CRITICAL"
    ELSE IF MathRound(score) >= 60 THEN "HIGH"
    ELSE IF MathRound(score) >= 40 THEN "MEDIUM"
    ELSE IF MathRound(score) >= 20 THEN "LOW"
    ELSE "SAFE"

\* mutant: the boundaries are exclusive
getRiskLevelExclusive(score) ==
    IF FGe(score, 80) /\ score # Exact(80) THEN "CRITICAL"
    ELSE IF FGe(score, 60) /\ score # Exact(60) THEN "HIGH"
    ELSE IF FGe(score, 40) /\ score # Exact(40) THEN "MEDIUM"
    ELSE IF FGe(score, 20) /\ score # Exact(20) THEN "LOW"
    ELSE "SAFE"

getRiskLevel(score) ==
    IF FGe(score, 80) THEN "CRITICAL"
    ELSE IF FGe(score, 60) THEN "HIGH"
    ELSE IF FGe(score, 40) THEN "MEDIUM"
    ELSE IF FGe(score, 20) THEN "LOW"
    ELSE "SAFE"

(***************************************************************************)
(* Strings that the code searches are sequences of characters.             *)
(***************************************************************************)
\* 'mint authority'
SubMintAuthority ==
    <<"m","i","n","t"," ","a","u","t","h","o","r","i","t","y">>
\* 'liquidity'
SubLiquidity ==
    <<"l","i","q","u","i","d","i","t","y">>
\* 'LP'
SubLP ==
    <<"L","P">>
\* 'concentration'
SubConcentration ==
    <<"c","o","n","c","e","n","t","r","a","t","i","o","n">>
\* 'distribution'
SubDistribution ==
    <<"d","i","s","t","r","i","b","u","t","i","o","n">>
\* 'mint authority not renounced'
FlagMintLower ==
    <<"m","i","n","t"," ","a","u","t","h","o","r","i","t","y"," ","n","o","t"," ","r","e","n","o","u","n","c","e","d">>
\* 'Mint authority not renounced'
FlagMintUpper ==
    <<"M","i","n","t"," ","a","u","t","h","o","r","i","t","y"," ","n","o","t"," ","r","e","n","o","u","n","c","e","d">>
\* 'LP tokens not locked'
FlagLP ==
    <<"L","P"," ","t","o","k","e","n","s"," ","n","o","t"," ","l","o","c","k","e","d">>
\* 'Suspicious social activity'
FlagSocial ==
    <<"S","u","s","p","i","c","i","o","u","s"," ","s","o","c","i","a","l"," ","a","c","t","i","v","i","t","y">>
\* 'Potential backdoor function'
FlagCode ==
    <<"P","o","t","e","n","t","i","a","l"," ","b","a","c","k","d","o","o","r"," ","f","u","n","c","t","i","o","n">>

\* 'Top 3 wallets hold 95.0% of supply - extreme concentration'
FlagConcentration ==
    <<"T","o","p"," ","3"," ","w","a","l","l","e","t","s"," ","h","o","l","d"," ","9","5",".","0","%"," ","o","f"," ","s","u","p","p","l","y"," ","-"," ","e","x","t","r","e","m","e"," ","c","o","n","c","e","n","t","r","a","t","i","o","n">>

UpperCaseLetters ==
    <<"A","B","C","D","E","F","G","H","I","J","K","L","M","N","O","P","Q","R","S","T","U","V","W","X","Y","Z">>
LowerCaseLetters ==
    <<"a","b","c","d","e","f","g","h","i","j","k","l","m","n","o","p","q","r","s","t","u","v","w","x","y","z">>
\* the lower-case form of one character
ToLowerCase(ch) ==
    IF \E k \in 1..26 : UpperCaseLetters[k] = ch
    THEN LowerCaseLetters[CHOOSE k \in 1..26 : UpperCaseLetters[k] = ch]
    ELSE ch
\* String.prototype.toLowerCase
toLowerCase(str) == [k \in DOMAIN str |-> ToLowerCase(str[k])]

\* mutant: the search ignores the case of the letters
IncludesIgnoringCase(str, sub) ==
    \E i \in 1..(Len(str) - Len(sub) + 1) :
        \A k \in 1..Len(sub) : ToLowerCase(str[i + k - 1]) = ToLowerCase(sub[k])

\* String.prototype.includes
Includes(str, sub) ==
    \E i \in 1..(Len(str) - Len(sub) + 1) :
        SubSeq(str, i, i + Len(sub) - 1) = sub

(***************************************************************************)
(* A redFlags property is absent (the object has no such key) or a list.   *)
(***************************************************************************)
Flags(items) == [defined |-> TRUE, items |-> items]
NoFlags == [defined |-> FALSE, items |-> <<>>]

\* x.redFlags || []
OrEmpty(f) == IF f.defined THEN f.items ELSE <<>>

RECURSIVE onChainWarnings(_)
\* the forEach over onChain.redFlags
onChainWarnings(flags) ==
    IF flags = <<>> THEN <<>>
    ELSE LET flag == Head(flags)
         IN  (IF Includes(flag, SubMintAuthority)
              THEN <<"Mint authority not renounced - unlimited token creation possible">>
              ELSE <<>>)
             \o (IF Includes(flag, SubLiquidity) \/ Includes(flag, SubLP)
                 THEN <<"Liquidity not locked - developers can remove funds anytime">>
                 ELSE <<>>)
             \o (IF Includes(flag, SubConcentration) \/ Includes(flag, SubDistribution)
                 THEN <<"High token concentration - single wallet controls majority supply">>
                 ELSE <<>>)
             \o onChainWarnings(Tail(flags))

\* mutant: every category of warning is given once
onChainRecommendationsOnce(onChain) ==
    LET flags == OrEmpty(onChain.redFlags)
    IN  (IF \E k \in DOMAIN flags : Includes(flags[k], SubMintAuthority)
         THEN <<"Mint authority not renounced - unlimited token creation possible">>
         ELSE <<>>)
        \o (IF \E k \in DOMAIN flags :
                   Includes(flags[k], SubLiquidity) \/ Includes(flags[k], SubLP)
            THEN <<"Liquidity not locked - developers can remove funds anytime">>
            ELSE <<>>)
        \o (IF \E k \in DOMAIN flags :
                   Includes(flags[k], SubConcentration) \/ Includes(flags[k], SubDistribution)
            THEN <<"High token concentration - single wallet controls majority supply">>
            ELSE <<>>)

\* the if (onChain.redFlags && onChain.redFlags.length > 0) block
onChainRecommendations(onChain) ==
    IF onChain.redFlags.defined /\ Len(onChain.redFlags.items) > 0
    THEN onChainWarnings(onChain.redFlags.items)
    ELSE <<>>

\* mutant: the boundary of the highest band is exclusive
headlineRecommendationsAbove(riskScore) ==
    IF FGe(riskScore, 80) /\ riskScore # Exact(80)
    THEN <<"DO NOT BUY - HIGH RUG PULL RISK", "Avoid this token completely">>
    ELSE IF FGe(riskScore, 60)
    THEN <<"EXTREME CAUTION - High risk detected", "Only invest what you can afford to lose">>
    ELSE IF FGe(riskScore, 40)
    THEN <<"MODERATE CAUTION - Some red flags present", "Research thoroughly before investing">>
    ELSE <<"APPEARS LEGITIMATE - Low risk detected", "Still exercise normal caution with new tokens">>

\* the if / else if chain on riskScore
headlineRecommendations(riskScore) ==
    IF FGe(riskScore, 80)
    THEN <<"DO NOT BUY - HIGH RUG PULL RISK", "Avoid this token completely">>
    ELSE IF FGe(riskScore, 60)
    THEN <<"EXTREME CAUTION - High risk detected", "Only invest what you can afford to lose">>
    ELSE IF FGe(riskScore, 40)
    THEN <<"MODERATE CAUTION - Some red flags present", "Research thoroughly before investing">>
    ELSE <<"APPEARS LEGITIMATE - Low risk detected", "Still exercise normal caution with new tokens">>

\* mutant: one warning for every social flag
socialRecommendationPerFlag(social) ==
    IF social.redFlags.defined
    THEN [k \in 1..Len(social.redFlags.items) |-> "Social media shows suspicious activity"]
    ELSE <<>>

\* the if (social.redFlags && social.redFlags.length > 0) block
socialRecommendation(social) ==
    IF social.redFlags.defined /\ Len(social.redFlags.items) > 0
    THEN <<"Social media shows suspicious activity">>
    ELSE <<>>

\* the if (code.redFlags && code.redFlags.length > 0) block
codeRecommendation(code) ==
    IF code.redFlags.defined /\ Len(code.redFlags.items) > 0
    THEN <<"Contract contains potential vulnerabilities">>
    ELSE <<>>

\* mutant: the social and code warnings come before the on-chain ones
generateRecommendationsSocialFirst(riskScore, onChain, social, code) ==
    headlineRecommendations(riskScore)
        \o socialRecommendation(social)
        \o codeRecommendation(code)
        \o onChainRecommendations(onChain)

generateRecommendations(riskScore, onChain, social, code) ==
    headlineRecommendations(riskScore)
        \o onChainRecommendations(onChain)
        \o socialRecommendation(social)
        \o codeRecommendation(code)

\* mutant: only the on-chain flags are collected
allRedFlagsOnChain(onChain, social, code) == OrEmpty(onChain.redFlags)

\* [...(onChain.redFlags || []), ...(social.redFlags || []), ...(code.redFlags || [])]
allRedFlags(onChain, social, code) ==
    OrEmpty(onChain.redFlags) \o OrEmpty(social.redFlags) \o OrEmpty(code.redFlags)

\* mutant: the N of the '...and N more issues' line counts all flags
moreIssuesTotal(flags) == IF Len(flags) > 5 THEN Len(flags) ELSE 0

\* the N of the '...and N more issues' line, 0 when the line is left out
moreIssues(flags) == IF Len(flags) > 5 THEN Len(flags) - 5 ELSE 0

\* mutant: the bands of the label are one too high
summaryRecommendationAbove(riskScore) ==
    IF FGe(riskScore, 80) /\ riskScore # Exact(80) THEN "DO NOT BUY"
    ELSE IF FGe(riskScore, 60) /\ riskScore # Exact(60) THEN "EXTREME CAUTION"
    ELSE IF FGe(riskScore, 40) /\ riskScore # Exact(40) THEN "MODERATE CAUTION"
    ELSE "APPEARS SAFE"

\* the label after 'RECOMMENDATION: '
summaryRecommendation(riskScore) ==
    IF FGe(riskScore, 80) THEN "DO NOT BUY"
    ELSE IF FGe(riskScore, 60) THEN "EXTREME CAUTION"
    ELSE IF FGe(riskScore, 40) THEN "MODERATE CAUTION"
    ELSE "APPEARS SAFE"

\* The summary text, held as the parts it is concatenated from: the
\* headline's level and rounded score, whether the KEY RED FLAGS section is
\* there, the flags it lists, the N of '...and N more issues' (0 when that
\* line is left out) and the closing recommendation label.
generateSummary(riskScore, onChain, social, code) ==
    LET level == getRiskLevel(riskScore)
        flags == allRedFlags(onChain, social, code)
    IN  [level |-> level,
         score |-> MathRound(riskScore),
         keyRedFlags |-> Len(flags) > 0,
         listed |-> SubSeq(flags, 1, Min(5, Len(flags))),
         more |-> moreIssues(flags),
         recommendation |-> summaryRecommendation(riskScore)]

(***************************************************************************)
(* Collaborators of the detector and the values they hand back.            *)
(***************************************************************************)
Calls == 1..NumCalls

\* position of each sub-analyzer call in the array given to Promise.all
Analyzers == 1..3
AnalyzerName(i) == CASE i = 1 -> "analyzeTokenEconomics"
                     [] i = 2 -> "analyzeSocialSignals"
                     [] OTHER -> "analyzeCode"
Collaborators == {"getTokenInfo"} \cup {AnalyzerName(i) : i \in Analyzers}

TokenMints == {"test-mint-address"}

\* sub-scores a sub-analyzer may report: the values of the test suite, the
\* out-of-range values, and 7 and 77 whose weighted sum is not exact
SubScores == {Num(s) : s \in {-10, 0, 7, 30, 40, 45, 60, 77, 80, 100, 150}}
                 \cup {NaN, Undefined}

SubAnalysis(score, flags) == [riskScore |-> score, redFlags |-> flags]
NoAnalysis == SubAnalysis(Undefined, NoFlags)

\* results the i-th sub-analyzer may resolve to
AnalysisResults(i) ==
    {SubAnalysis(s, Flags(<<>>)) : s \in SubScores}
        \cup {SubAnalysis(Num(80), Flags(CASE i = 1 -> <<FlagMintLower, FlagLP>>
                                           [] i = 2 -> <<FlagSocial>>
                                           [] OTHER -> <<FlagCode>>))}

Error(origin, message) == [origin |-> origin, message |-> message]
NoError == Error("none", "")
\* the error a collaborator call may reject with
CollaboratorError(name) == Error(name, name \o " failed")
\* new Error('Token not found or invalid')
NotFoundError == Error("analyzeToken", "Token not found or invalid")

\* what getTokenInfo may resolve to: null, or metadata with or without symbol
Null == [isNull |-> TRUE, symbol |-> ""]
TokenInfo(symbol) == [isNull |-> FALSE, symbol |-> symbol]
TokenInfos == {Null, TokenInfo("TEST"), TokenInfo("")}

\* a promise of a collaborator call
NoPromise == [state |-> "none", value |-> NoAnalysis, reason |-> NoError]
Pending == [state |-> "pending", value |-> NoAnalysis, reason |-> NoError]
Fulfilled(v) == [state |-> "fulfilled", value |-> v, reason |-> NoError]
Rejected(e) == [state |-> "rejected", value |-> NoAnalysis, reason |-> e]

NoInfoPromise == [state |-> "none", value |-> Null, reason |-> NoError]
InfoPending == [state |-> "pending", value |-> Null, reason |-> NoError]
InfoFulfilled(v) == [state |-> "fulfilled", value |-> v, reason |-> NoError]
InfoRejected(e) == [state |-> "rejected", value |-> Null, reason |-> e]

\* the promise returned by Promise.all([...]) over three promises
NoJoin == [state |-> "none", values |-> [i \in Analyzers |-> NoAnalysis],
           remaining |-> 0, reason |-> NoError]
PromiseAll == [state |-> "pending", values |-> [i \in Analyzers |-> NoAnalysis],
               remaining |-> 3, reason |-> NoError]

\* mutant: the join is fulfilled by the first fulfilled element
ResolveElementFirst(j, i, v) ==
    LET vals == [j.values EXCEPT ![i] = v]
    IN  IF j.state = "pending"
        THEN [j EXCEPT !.state = "fulfilled", !.values = vals, !.remaining = j.remaining - 1]
        ELSE [j EXCEPT !.values = vals, !.remaining = j.remaining - 1]

\* mutant: the values are stored in the order of arrival
ResolveElementByArrival(j, i, v) ==
    LET vals == [j.values EXCEPT ![4 - j.remaining] = v]
        left == j.remaining - 1
    IN  IF j.state = "pending" /\ left = 0
        THEN [j EXCEPT !.state = "fulfilled", !.values = vals, !.remaining = left]
        ELSE [j EXCEPT !.values = vals, !.remaining = left]

\* Promise.all's reaction to the i-th promise being fulfilled with v
ResolveElement(j, i, v) ==
    LET vals == [j.values EXCEPT ![i] = v]
        left == j.remaining - 1
    IN  IF j.state = "pending" /\ left = 0
        THEN [j EXCEPT !.state = "fulfilled", !.values = vals, !.remaining = left]
        ELSE [j EXCEPT !.values = vals, !.remaining = left]

\* mutant: the join carries the error of the latest rejection
RejectElementLatest(j, e) == [j EXCEPT !.state = "rejected", !.reason = e]

\* Promise.all's reaction to one of the promises being rejected with e
RejectElement(j, e) ==
    IF j.state = "pending"
    THEN [j EXCEPT !.state = "rejected", !.reason = e]
    ELSE j

(***************************************************************************)
(* RugPullDetector.analyzeToken: the report and the outcome of a call.     *)
(***************************************************************************)
\* steps 3 to 5 of analyzeToken; the timestamp is left out
CompileReport(tokenMint, tokenInfo, onChainResult, socialResult, codeResult) ==
    LET riskScore == calculateRiskScore(onChainResult, socialResult, codeResult)
        recommendations == generateRecommendations(riskScore, onChainResult,
                                                   socialResult, codeResult)
    IN  [token |-> IF tokenInfo.symbol # "" THEN tokenInfo.symbol ELSE tokenMint,
         mintAddress |-> tokenMint,
         riskScore |-> MathRound(riskScore),
         riskLevel |-> getRiskLevel(riskScore),
         analysis |-> [onChain |-> onChainResult,
                       social |-> socialResult,
                       code |-> codeResult],
         recommendations |-> recommendations,
         summary |-> generateSummary(riskScore, onChainResult,
                                     socialResult, codeResult)]

NoReport == CompileReport("", Null, NoAnalysis, NoAnalysis, NoAnalysis)

NoOutcome == [status |-> "none", report |-> NoReport, error |-> NoError]
Returned(report) == [status |-> "returned", report |-> report, error |-> NoError]
\* mutant: a failed call hands back an empty report instead of throwing
ThrownAsReport(error) == [status |-> "returned", report |-> NoReport, error |-> NoError]

\* the catch block rethrows the error it caught
Thrown(error) == [status |-> "thrown", report |-> NoReport, error |-> error]

ConsoleLog(c, text) == [method |-> "log", call |-> c, text |-> text]
ConsoleError(c, message) ==
    [method |-> "error", call |-> c, text |-> "Error analyzing token: " \o message]

(***************************************************************************)
(* TokenResolver: symbols, token lists and the calls of                    *)
(* resolveSymbolToMint.                                                    *)
(***************************************************************************)
Resolves == 1..NumResolves

\* 'BONK', 'bonk' and 'SOL'
ResolveSymbols == {<<"B","O","N","K">>, <<"b","o","n","k">>, <<"S","O","L">>}
\* the symbols call r is made with: the first asks for 'BONK', the second
\* for 'bonk', a later one for 'BONK' or 'SOL'
SymbolsOf(r) ==
    IF r = 1 THEN {<<"B","O","N","K">>}
    ELSE IF r = 2 THEN {<<"b","o","n","k">>}
    ELSE {<<"B","O","N","K">>, <<"S","O","L">>}
CacheKeys == {toLowerCase(symbol) : symbol \in ResolveSymbols}

\* null, and what Map.get gives for a key that is not there
NoMint == ""
EmptyCache == [key \in CacheKeys |-> NoMint]

\* positions in this.tokenLists: solana-labs, raydium, jup.ag
TokenLists == 1..3

\* the address of the token that list l holds under a symbol or name: the
\* lists agree on SOL, raydium holds another token named bonk
ListAddress(l, key) ==
    IF key = <<"s","o","l">> THEN "So11111111111111111111111111111111111111112"
    ELSE IF l = 2 THEN "6dhTynDkYsVM7cbF7TKfC9DWB636TcEM935fq7JzL2ES"
    ELSE "DezXAZ8z7PnrnRJjz3wXBoRgixCa6xjnB7YaB1pPB263"
InvalidAddress == "not-a-public-key"

\* new PublicKey(address) does not throw
isValidPublicKey(address) ==
    address \in {ListAddress(l, key) : l \in TokenLists, key \in CacheKeys}

\* what axios.get and tokens.find give: the fetch fails, or the list has no
\* token of that symbol or name, or it has one with this address
FetchFailed == [state |-> "rejected", found |-> FALSE, address |-> ""]
NoToken == [state |-> "fulfilled", found |-> FALSE, address |-> ""]
Token(address) == [state |-> "fulfilled", found |-> TRUE, address |-> address]
ListResponses(l, key) ==
    {FetchFailed, NoToken, Token(InvalidAddress), Token(ListAddress(l, key))}

\* mutant: the address of the token found is returned unchecked
searchTokenListUnchecked(response) ==
    IF response.state = "rejected" THEN [threw |-> TRUE, value |-> NoMint]
    ELSE IF response.found /\ response.address # ""
    THEN [threw |-> FALSE, value |-> response.address]
    ELSE [threw |-> FALSE, value |-> NoMint]

\* searchTokenList once axios.get has settled: what it returns or that it throws
searchTokenList(response) ==
    IF response.state = "rejected" THEN [threw |-> TRUE, value |-> NoMint]
    ELSE IF response.found /\ response.address # "" /\ isValidPublicKey(response.address)
    THEN [threw |-> FALSE, value |-> response.address]
    ELSE [threw |-> FALSE, value |-> NoMint]

\* a call of resolveSymbolToMint: its argument, the value it read from the
\* cache, the list it waits for, the lists it fetched so far and what
\* searchTokenList did for each (it threw, or the value it returned), what the
\* call returned, and the calls that had returned when it was made
Threw == "threw"
NoResolve == [pc |-> "unused", symbol |-> <<>>, cached |-> NoMint, list |-> 0,
              fetched |-> <<>>, found |-> <<>>, lookedUp |-> FALSE,
              result |-> NoMint, thrown |-> FALSE, after |-> {}]

(***************************************************************************)
(* WebDashboard POST /api/bulk-check (src/unnamed/part_001) and            *)
(* RugPullDetector.analyzeTokenBySymbol.                                   *)
(***************************************************************************)
\* an element of the symbols array: a JSON string, or a JSON number such as 42
StringSymbol(chars) == [string |-> TRUE, chars |-> chars]
NumberSymbol == [string |-> FALSE, chars |-> <<>>]
MOON == StringSymbol(<<"M","O","O","N">>)
FAKE == StringSymbol(<<"F","A","K","E">>)
WIF == StringSymbol(<<"W","I","F">>)

\* req.body.symbols: an array, or a value for which Array.isArray is false
\* ('not-an-array', or no symbols property at all)
ArrayOf(items) == [isArray |-> TRUE, items |-> items]
NotAnArray == [isArray |-> FALSE, items |-> <<>>]

\* Array(n).fill(symbol)
Fill(n, symbol) == [i \in 1..n |-> symbol]
\* the request bodies posted: not an array, [], every array of up to three of
\* 'MOON', 'FAKE', 'WIF' and 42, and arrays of 9 to MaxSymbols elements that
\* are all 'MOON' or have 42 or 'FAKE' in one place
BulkBodies ==
    {NotAnArray}
    \cup {ArrayOf(items) : items \in UNION {[1..k -> {MOON, FAKE, WIF, NumberSymbol}] : k \in 0..3}}
    \cup {ArrayOf(Fill(n, MOON)) : n \in 9..MaxSymbols}
    \cup {ArrayOf([Fill(n, MOON) EXCEPT ![k] = other]) :
              n \in {MaxSymbols}, k \in 9..MaxSymbols, other \in {NumberSymbol, FAKE}}

\* symbols.slice(0, 10)
BulkLimit == 10
\* mutant: the whole array is analyzed
sliceAll(items) ==
    items

slice(items) ==
    SubSeq(items, 1, IF Len(items) < BulkLimit THEN Len(items) ELSE BulkLimit)

\* analyzeTokenBySymbol: symbol.toLowerCase() throws a TypeError for a symbol
\* that is not a string; otherwise the analysis depends on the symbol only
NoSymbolAnalysis == [tokenSymbol |-> NumberSymbol, riskScore |-> 0, riskLevel |-> ""]
analyzeTokenBySymbol(symbol) ==
    IF ~symbol.string THEN [threw |-> TRUE, value |-> NoSymbolAnalysis]
    ELSE LET lower == toLowerCase(symbol.chars)
         IN  IF Includes(lower, <<"f","a","k","e">>) \/ Includes(lower, <<"r","u","g">>)
             THEN [threw |-> FALSE,
                   value |-> [tokenSymbol |-> symbol, riskScore |-> 92, riskLevel |-> "CRITICAL"]]
             ELSE IF Includes(lower, <<"m","o","o","n">>) \/ Includes(lower, <<"s","h","o","t">>)
             THEN [threw |-> FALSE,
                   value |-> [tokenSymbol |-> symbol, riskScore |-> 78, riskLevel |-> "HIGH"]]
             ELSE [threw |-> FALSE,
                   value |-> [tokenSymbol |-> symbol, riskScore |-> 23, riskLevel |-> "LOW"]]

\* { symbol, ...analysis } and { symbol, error: 'Analysis failed' }
AnalysisEntry(symbol, analysis) == [symbol |-> symbol, error |-> "", analysis |-> analysis]
ErrorEntry(symbol) ==
    [symbol |-> symbol, error |-> "Analysis failed", analysis |-> NoSymbolAnalysis]

\* a request: the symbols posted, the array the loop goes over and the place
\* of the loop in it, the symbols the detector was invoked with, the promise
\* the loop awaits, the results pushed and the status of the response
NoBulk == [pc |-> "unused", symbols |-> NotAnArray, sliced |-> <<>>, index |-> 0,
           invoked |-> <<>>, awaited |-> [threw |-> FALSE, value |-> NoSymbolAnalysis],
           results |-> <<>>, status |-> 0, body |-> ""]

VARIABLES
    pc,         \* pc[c]: where call c of analyzeToken stands
    tokenMint,  \* tokenMint[c]: the argument of call c
    info,       \* info[c]: the promise of call c's getTokenInfo
    sub,        \* sub[c][i]: the promise of call c's i-th sub-analyzer call
    join,       \* join[c]: the Promise.all promise of call c
    settled,    \* settled[c]: the sub-analyzers of call c in the order they settled
    invoked,    \* invoked[c][name]: how often call c invoked the collaborator
    outcome,    \* outcome[c]: the report call c returned or the error it threw
    console,    \* what was written with console.log and console.error
    unit,       \* a scoring function applied on its own: argument and result
    tokenCache, \* TokenResolver's this.tokenCache: the mint cached under each key
    resolve,    \* resolve[r]: call r of TokenResolver.resolveSymbolToMint
    bulk        \* the POST /api/bulk-check request being handled

vars == <<pc, tokenMint, info, sub, join, settled, invoked, outcome, console, unit,
          tokenCache, resolve, bulk>>

\* positions in which a call holds the JavaScript thread: lines 751-753 run
\* without returning to the event loop
Running == {"callChain", "callSocial", "callCode"}
ThreadFree == \A c \in Calls : pc[c] \notin Running

NoUnit == [fn |-> "none", arg |-> 0, result |-> "none"]

DetectorIdle(first) ==
    /\ pc = [c \in Calls |-> IF c <= first THEN "idle" ELSE "unused"]
    /\ tokenMint = [c \in Calls |-> ""]
    /\ info = [c \in Calls |-> NoInfoPromise]
    /\ sub = [c \in Calls |-> [i \in Analyzers |-> NoPromise]]
    /\ join = [c \in Calls |-> NoJoin]
    /\ settled = [c \in Calls |-> <<>>]
    /\ invoked = [c \in Calls |-> [n \in Collaborators |-> 0]]
    /\ outcome = [c \in Calls |-> NoOutcome]
    /\ console = <<>>

\* no resolveSymbolToMint call and no bulk-check request is made
Idle(first) ==
    /\ DetectorIdle(first)
    /\ tokenCache = EmptyCache
    /\ resolve = [r \in Resolves |-> NoResolve]
    /\ bulk = NoBulk

\* a detector on which one analyzeToken call is made
Init == Idle(1) /\ unit = NoUnit

\* lines 739-744: log, invoke getTokenInfo, suspend; the argument is one of mints
CallWith(c, mints) ==
    /\ pc[c] = "idle"
    /\ ThreadFree
    /\ \E mint \in mints : tokenMint' = [tokenMint EXCEPT ![c] = mint]
    /\ console' = Append(console, ConsoleLog(c, "Analyzing token"))
    /\ invoked' = [invoked EXCEPT ![c]["getTokenInfo"] = @ + 1]
    /\ info' = [info EXCEPT ![c] = InfoPending]
    /\ pc' = [pc EXCEPT ![c] = "awaitInfo"]
    /\ UNCHANGED <<sub, join, settled, outcome, unit, tokenCache, resolve, bulk>>

\* analyzeToken(tokenMint)
Call(c) == CallWith(c, TokenMints)

\* the chain collaborator settles the getTokenInfo promise, with one of infos
\* or with an error
GetTokenInfoSettlesWith(c, infos) ==
    /\ info[c].state = "pending"
    /\ ThreadFree
    /\ \/ \E v \in infos : info' = [info EXCEPT ![c] = InfoFulfilled(v)]
       \/ info' = [info EXCEPT ![c] = InfoRejected(CollaboratorError("getTokenInfo"))]
    /\ UNCHANGED <<pc, tokenMint, sub, join, settled, invoked, outcome, console, unit, tokenCache, resolve, bulk>>

GetTokenInfoSettles(c) == GetTokenInfoSettlesWith(c, TokenInfos)

\* mutant: the catch block throws a new error
CatchWrapped(c, error) ==
    /\ console' = Append(console, ConsoleError(c, error.message))
    /\ outcome' = [outcome EXCEPT ![c] = Thrown(Error("analyzeToken", "Analysis failed"))]
    /\ pc' = [pc EXCEPT ![c] = "done"]

\* mutant: the catch block starts the call again
CatchRetry(c, error) ==
    /\ console' = Append(console, ConsoleError(c, error.message))
    /\ outcome' = outcome
    /\ pc' = [pc EXCEPT ![c] = "idle"]

\* mutant: the catch block rethrows without console.error
CatchSilent(c, error) ==
    /\ console' = console
    /\ outcome' = [outcome EXCEPT ![c] = Thrown(error)]
    /\ pc' = [pc EXCEPT ![c] = "done"]

\* lines 781-784: the catch block
Catch(c, error) ==
    /\ console' = Append(console, ConsoleError(c, error.message))
    /\ outcome' = [outcome EXCEPT ![c] = Thrown(error)]
    /\ pc' = [pc EXCEPT ![c] = "done"]

\* mutant: a null tokenInfo is not checked
ResumeTokenInfoUnchecked(c) ==
    /\ pc[c] = "awaitInfo"
    /\ info[c].state \in {"fulfilled", "rejected"}
    /\ ThreadFree
    /\ IF info[c].state = "rejected" THEN Catch(c, info[c].reason)
       ELSE /\ pc' = [pc EXCEPT ![c] = "callChain"]
            /\ UNCHANGED <<outcome, console>>
    /\ UNCHANGED <<tokenMint, info, sub, join, settled, invoked, unit, tokenCache, resolve, bulk>>

\* lines 744-747: analyzeToken resumes after await getTokenInfo
ResumeTokenInfo(c) ==
    /\ pc[c] = "awaitInfo"
    /\ info[c].state \in {"fulfilled", "rejected"}
    /\ ThreadFree
    /\ IF info[c].state = "rejected" THEN Catch(c, info[c].reason)
       ELSE IF info[c].value.isNull THEN Catch(c, NotFoundError)
       ELSE /\ pc' = [pc EXCEPT ![c] = "callChain"]
            /\ UNCHANGED <<outcome, console>>
    /\ UNCHANGED <<tokenMint, info, sub, join, settled, invoked, unit, tokenCache, resolve, bulk>>

\* the position after invoking the i-th sub-analyzer
AfterInvoke(i) == CASE i = 1 -> "callSocial"
                    [] i = 2 -> "callCode"
                    [] OTHER -> "awaitAll"

\* lines 750-754: the i-th element of the array is evaluated, which invokes
\* the sub-analyzer; after the third, Promise.all is called and awaited
Invoke(c, i) ==
    /\ pc[c] = CASE i = 1 -> "callChain" [] i = 2 -> "callSocial" [] OTHER -> "callCode"
    /\ invoked' = [invoked EXCEPT ![c][AnalyzerName(i)] = @ + 1]
    /\ sub' = [sub EXCEPT ![c][i] = Pending]
    /\ join' = IF i = 3 THEN [join EXCEPT ![c] = PromiseAll] ELSE join
    /\ pc' = [pc EXCEPT ![c] = AfterInvoke(i)]
    /\ UNCHANGED <<tokenMint, info, settled, outcome, console, unit, tokenCache, resolve, bulk>>

\* the i-th sub-analyzer settles its promise, with one of results or with an
\* error, and Promise.all reacts
AnalyzerSettlesWith(c, i, results) ==
    /\ sub[c][i].state = "pending"
    /\ ThreadFree
    /\ \/ \E r \in results :
            /\ sub' = [sub EXCEPT ![c][i] = Fulfilled(r)]
            /\ join' = [join EXCEPT ![c] = ResolveElement(@, i, r)]
       \/ LET e == CollaboratorError(AnalyzerName(i))
          IN  /\ sub' = [sub EXCEPT ![c][i] = Rejected(e)]
              /\ join' = [join EXCEPT ![c] = RejectElement(@, e)]
    /\ settled' = [settled EXCEPT ![c] = Append(@, i)]
    /\ UNCHANGED <<pc, tokenMint, info, invoked, outcome, console, unit, tokenCache, resolve, bulk>>

AnalyzerSettles(c, i) == AnalyzerSettlesWith(c, i, AnalysisResults(i))

\* mutant: the results are kept in a field of the detector, which holds
\* those of whichever call was fulfilled
ResumeAllShared(c) ==
    /\ pc[c] = "awaitAll"
    /\ join[c].state \in {"fulfilled", "rejected"}
    /\ ThreadFree
    /\ IF join[c].state = "rejected" THEN Catch(c, join[c].reason)
       ELSE \E d \in Calls :
                /\ join[d].state = "fulfilled"
                /\ outcome' = [outcome EXCEPT ![c] =
                       Returned(CompileReport(tokenMint[d], info[d].value,
                                join[d].values[1], join[d].values[2], join[d].values[3]))]
                /\ console' = Append(console, ConsoleLog(c, "Analysis complete"))
                /\ pc' = [pc EXCEPT ![c] = "done"]
    /\ UNCHANGED <<tokenMint, info, sub, join, settled, invoked, unit, tokenCache, resolve, bulk>>

\* lines 750-784: analyzeToken resumes after await Promise.all
ResumeAll(c) ==
    /\ pc[c] = "awaitAll"
    /\ join[c].state \in {"fulfilled", "rejected"}
    /\ ThreadFree
    /\ IF join[c].state = "rejected" THEN Catch(c, join[c].reason)
       ELSE LET onChainResult == join[c].values[1]
                socialResult == join[c].values[2]
                codeResult == join[c].values[3]
            IN  /\ outcome' = [outcome EXCEPT ![c] =
                       Returned(CompileReport(tokenMint[c], info[c].value,
                                onChainResult, socialResult, codeResult))]
                /\ console' = Append(console, ConsoleLog(c, "Analysis complete"))
                /\ pc' = [pc EXCEPT ![c] = "done"]
    /\ UNCHANGED <<tokenMint, info, sub, join, settled, invoked, unit, tokenCache, resolve, bulk>>

Next ==
    \E c \in Calls :
        \/ Call(c)
        \/ GetTokenInfoSettles(c)
        \/ ResumeTokenInfo(c)
        \/ \E i \in Analyzers : Invoke(c, i)
        \/ \E i \in Analyzers : AnalyzerSettles(c, i)
        \/ ResumeAll(c)

Spec == Init /\ [][Next]_vars

(***************************************************************************)
(* Two analyzeToken calls in flight on the same detector.                  *)
(***************************************************************************)
\* the argument of each call: the two identifiers of the test suite
ConcurrentMint(c) == IF c = 1 THEN "test-mint-address" ELSE "invalid-token"
ConcurrentInfos == {Null, TokenInfo("TEST")}
\* the on-chain result of the test suite or a clean one; the social and code
\* results of the test suite
ConcurrentResults(i) ==
    CASE i = 1 -> {SubAnalysis(Num(0), Flags(<<>>)),
                   SubAnalysis(Num(80), Flags(<<FlagMintUpper>>))}
      [] i = 2 -> {SubAnalysis(Num(60), Flags(<<FlagSocial>>))}
      [] OTHER -> {SubAnalysis(Num(40), Flags(<<FlagCode>>))}

InitConcurrent == Idle(2) /\ unit = NoUnit

NextConcurrent ==
    \E c \in Calls :
        \/ CallWith(c, {ConcurrentMint(c)})
        \/ GetTokenInfoSettlesWith(c, ConcurrentInfos)
        \/ ResumeTokenInfo(c)
        \/ \E i \in Analyzers : Invoke(c, i)
        \/ \E i \in Analyzers : AnalyzerSettlesWith(c, i, ConcurrentResults(i))
        \/ ResumeAll(c)

SpecConcurrent == InitConcurrent /\ [][NextConcurrent]_vars

(***************************************************************************)
(* TokenResolver.resolveSymbolToMint, called NumResolves times on one      *)
(* resolver; a call may be made while earlier calls are waiting for a      *)
(* token list.                                                             *)
(***************************************************************************)
InitResolver ==
    /\ DetectorIdle(0)
    /\ unit = NoUnit
    /\ tokenCache = EmptyCache
    /\ resolve = [r \in Resolves |-> [NoResolve EXCEPT !.pc = "idle"]]
    /\ bulk = NoBulk

\* lines 20-29: the cache is read; on a miss the first list is fetched
ResolveSymbolToMint(r, symbol) ==
    /\ resolve[r].pc = "idle"
    /\ \A q \in Resolves : q < r => resolve[q].pc # "idle"
    /\ LET cached == tokenCache[toLowerCase(symbol)]
           begun == [resolve[r] EXCEPT
                        !.symbol = symbol, !.cached = cached,
                        !.after = {q \in Resolves : resolve[q].pc = "done"}]
       IN  resolve' = [resolve EXCEPT ![r] =
               IF cached # NoMint
               THEN [begun EXCEPT !.pc = "done", !.result = cached]
               ELSE [begun EXCEPT !.pc = "awaitList", !.list = 1, !.fetched = <<1>>]]
    /\ UNCHANGED <<pc, tokenMint, info, sub, join, settled, invoked, outcome, console,
                   unit, tokenCache, bulk>>

\* mutant: a list that cannot be fetched makes the call fail
ResumeSearchFailing(r, response) ==
    /\ resolve[r].pc = "awaitList"
    /\ LET search == searchTokenList(response)
           next == resolve[r].list + 1
           found == Append(resolve[r].found, IF search.threw THEN Threw ELSE search.value)
       IN  IF search.threw
           THEN /\ resolve' = [resolve EXCEPT ![r].pc = "done", ![r].thrown = TRUE,
                                              ![r].found = found]
                /\ tokenCache' = tokenCache
           ELSE IF search.value # NoMint
           THEN /\ tokenCache' = [tokenCache EXCEPT
                                     ![toLowerCase(resolve[r].symbol)] = search.value]
                /\ resolve' = [resolve EXCEPT ![r].pc = "done", ![r].found = found,
                                              ![r].result = search.value]
           ELSE IF next \in TokenLists
           THEN /\ resolve' = [resolve EXCEPT ![r].list = next, ![r].found = found,
                                              ![r].fetched = Append(@, next)]
                /\ tokenCache' = tokenCache
           ELSE /\ resolve' = [resolve EXCEPT ![r].pc = "awaitLookup", ![r].found = found,
                                              ![r].lookedUp = TRUE]
                /\ tokenCache' = tokenCache
    /\ UNCHANGED <<pc, tokenMint, info, sub, join, settled, invoked, outcome, console,
                   unit, bulk>>

\* lines 28-44 and 60-92: the axios.get of the list the call waits for
\* settles, searchTokenList finishes and the loop goes on: a mint is cached
\* and returned; otherwise (the search returned null, or it threw and the
\* catch of line 37 went on) the next list is fetched or, after the last,
\* reverseLookupOnChain is called
ResumeSearch(r, response) ==
    /\ resolve[r].pc = "awaitList"
    /\ LET search == searchTokenList(response)
           next == resolve[r].list + 1
           found == Append(resolve[r].found, IF search.threw THEN Threw ELSE search.value)
       IN  IF ~search.threw /\ search.value # NoMint
           THEN /\ tokenCache' = [tokenCache EXCEPT
                                     ![toLowerCase(resolve[r].symbol)] = search.value]
                /\ resolve' = [resolve EXCEPT ![r].pc = "done", ![r].found = found,
                                              ![r].result = search.value]
           ELSE IF next \in TokenLists
           THEN /\ resolve' = [resolve EXCEPT ![r].list = next, ![r].found = found,
                                              ![r].fetched = Append(@, next)]
                /\ tokenCache' = tokenCache
           ELSE /\ resolve' = [resolve EXCEPT ![r].pc = "awaitLookup", ![r].found = found,
                                              ![r].lookedUp = TRUE]
                /\ tokenCache' = tokenCache
    /\ UNCHANGED <<pc, tokenMint, info, sub, join, settled, invoked, outcome, console,
                   unit, bulk>>

\* lines 43-52 and 98-109: reverseLookupOnChain returns null, and so does the call
ReverseLookupReturns(r) ==
    /\ resolve[r].pc = "awaitLookup"
    /\ resolve' = [resolve EXCEPT ![r].pc = "done", ![r].result = NoMint]
    /\ UNCHANGED <<pc, tokenMint, info, sub, join, settled, invoked, outcome, console,
                   unit, tokenCache, bulk>>

NextResolver ==
    \E r \in Resolves :
        \/ \E symbol \in SymbolsOf(r) : ResolveSymbolToMint(r, symbol)
        \/ \E response \in ListResponses(resolve[r].list, toLowerCase(resolve[r].symbol)) :
               ResumeSearch(r, response)
        \/ ReverseLookupReturns(r)

SpecResolver == InitResolver /\ [][NextResolver]_vars

(***************************************************************************)
(* One POST /api/bulk-check request on a WebDashboard.                     *)
(***************************************************************************)
InitBulkCheck ==
    /\ DetectorIdle(0)
    /\ unit = NoUnit
    /\ tokenCache = EmptyCache
    /\ resolve = [r \in Resolves |-> NoResolve]
    /\ bulk = [NoBulk EXCEPT !.pc = "idle"]

\* part_001 lines 280-287: the request arrives; 400 unless symbols is an
\* array that is not empty, else the loop starts over symbols.slice(0, 10)
PostBulkCheck(symbols) ==
    /\ bulk.pc = "idle"
    /\ bulk' = IF ~symbols.isArray \/ Len(symbols.items) = 0
               THEN [bulk EXCEPT !.pc = "done", !.symbols = symbols, !.status = 400,
                                 !.body = "Invalid symbols array"]
               ELSE [bulk EXCEPT !.pc = "loop", !.symbols = symbols,
                                 !.sliced = slice(symbols.items), !.index = 1]
    /\ UNCHANGED <<pc, tokenMint, info, sub, join, settled, invoked, outcome, console,
                   unit, tokenCache, resolve>>

\* part_001 lines 287-289: the detector is invoked with the next symbol and
\* its promise awaited; after the last symbol res.json({ results })
AnalyzeNextSymbol ==
    /\ bulk.pc = "loop"
    /\ bulk' = IF bulk.index > Len(bulk.sliced)
               THEN [bulk EXCEPT !.pc = "done", !.status = 200, !.body = "results"]
               ELSE [bulk EXCEPT !.pc = "await",
                                 !.invoked = Append(@, bulk.sliced[bulk.index]),
                                 !.awaited = analyzeTokenBySymbol(bulk.sliced[bulk.index])]
    /\ UNCHANGED <<pc, tokenMint, info, sub, join, settled, invoked, outcome, console,
                   unit, tokenCache, resolve>>

\* mutant: a symbol whose analysis fails ends the request with status 500
PushResultOrFail ==
    /\ bulk.pc = "await"
    /\ LET symbol == bulk.sliced[bulk.index]
       IN  bulk' = IF bulk.awaited.threw
                   THEN [bulk EXCEPT !.pc = "done", !.status = 500,
                                     !.body = "Bulk analysis failed"]
                   ELSE [bulk EXCEPT !.pc = "loop", !.index = @ + 1,
                                     !.results = Append(@, AnalysisEntry(symbol, bulk.awaited.value))]
    /\ UNCHANGED <<pc, tokenMint, info, sub, join, settled, invoked, outcome, console,
                   unit, tokenCache, resolve>>

\* part_001 lines 289-293: the await resumes; the analysis, or the error
\* entry in the catch, is pushed and the loop goes on
PushResult ==
    /\ bulk.pc = "await"
    /\ LET symbol == bulk.sliced[bulk.index]
           entry == IF bulk.awaited.threw THEN ErrorEntry(symbol)
                    ELSE AnalysisEntry(symbol, bulk.awaited.value)
       IN  bulk' = [bulk EXCEPT !.pc = "loop", !.index = @ + 1,
                                !.results = Append(@, entry)]
    /\ UNCHANGED <<pc, tokenMint, info, sub, join, settled, invoked, outcome, console,
                   unit, tokenCache, resolve>>

NextBulkCheck ==
    \/ \E symbols \in BulkBodies : PostBulkCheck(symbols)
    \/ AnalyzeNextSymbol
    \/ PushResult

SpecBulkCheck == InitBulkCheck /\ [][NextBulkCheck]_vars

(***************************************************************************)
(* getRiskLevel applied on its own to the integer scores                   *)
(* -MaxOver .. 100 + MaxOver.                                              *)
(***************************************************************************)
LevelScores == (0 - MaxOver)..(100 + MaxOver)

InitGetRiskLevel ==
    /\ Idle(0)
    /\ \E s \in LevelScores : unit = [fn |-> "getRiskLevel", arg |-> s, result |-> "none"]

\* getRiskLevel(score)
Classify ==
    /\ unit.fn = "getRiskLevel"
    /\ unit.result = "none"
    /\ unit' = [unit EXCEPT !.result = getRiskLevel(Exact(unit.arg))]
    /\ UNCHANGED <<pc, tokenMint, info, sub, join, settled, invoked, outcome, console,
                 tokenCache, resolve, bulk>>

\* getRiskLevel(score + 1), after getRiskLevel(score)
ClassifyNext ==
    /\ unit.fn = "getRiskLevel"
    /\ unit.result # "none"
    /\ unit.arg + 1 \in LevelScores
    /\ unit' = [unit EXCEPT !.arg = unit.arg + 1,
                            !.result = getRiskLevel(Exact(unit.arg + 1))]
    /\ UNCHANGED <<pc, tokenMint, info, sub, join, settled, invoked, outcome, console,
                 tokenCache, resolve, bulk>>

NextGetRiskLevel == Classify \/ ClassifyNext

SpecGetRiskLevel == InitGetRiskLevel /\ [][NextGetRiskLevel]_vars

(***************************************************************************)
(* normalizeScore applied on its own, once and then to its own result.     *)
(***************************************************************************)
NormScores == (0 - MaxNormOver)..(100 + MaxNormOver)

InitNormalizeScore ==
    /\ Idle(0)
    /\ \E s \in NormScores :
           unit = [fn |-> "normalizeScore", arg |-> Num(s), first |-> Num(s),
                   result |-> Num(s), applied |-> 0]

\* normalizeScore(score)
Normalize ==
    /\ unit.fn = "normalizeScore"
    /\ unit.applied = 0
    /\ unit' = [unit EXCEPT !.first = normalizeScore(unit.arg),
                            !.result = normalizeScore(unit.arg),
                            !.applied = 1]
    /\ UNCHANGED <<pc, tokenMint, info, sub, join, settled, invoked, outcome, console,
                 tokenCache, resolve, bulk>>

\* normalizeScore(normalizeScore(score))
NormalizeAgain ==
    /\ unit.fn = "normalizeScore"
    /\ unit.applied = 1
    /\ unit' = [unit EXCEPT !.result = normalizeScore(unit.first), !.applied = 2]
    /\ UNCHANGED <<pc, tokenMint, info, sub, join, settled, invoked, outcome, console,
                 tokenCache, resolve, bulk>>

NextNormalizeScore == Normalize \/ NormalizeAgain

SpecNormalizeScore == InitNormalizeScore /\ [][NextNormalizeScore]_vars

(***************************************************************************)
(* generateRecommendations and generateSummary applied on their own.       *)
(***************************************************************************)
\* the sequences over pool of length at most n
SeqsUpTo(pool, n) == UNION {[1..k -> pool] : k \in 0..n}

\* the redFlags a result object may carry: none, or a list over pool
RedFlagChoices(pool, n) == {NoFlags} \cup {Flags(f) : f \in SeqsUpTo(pool, n)}

\* the scores given to the generators: the band boundaries, the halves just
\* below them, and the scores of the test suite (15, 55, 70, 85)
ScoreArgs == {Dbl(t, 0) : t \in {150, 395, 400, 550, 595, 600, 700, 795, 800, 850}}

GeneratorArgs ==
    [riskScore : ScoreArgs,
     onChain : {SubAnalysis(Undefined, f) :
                   f \in RedFlagChoices({FlagMintLower, FlagMintUpper, FlagLP,
                                         FlagConcentration}, MaxOnChainFlags)},
     social : {SubAnalysis(Undefined, f) : f \in RedFlagChoices({FlagSocial}, MaxOtherFlags)},
     code : {SubAnalysis(Undefined, f) : f \in RedFlagChoices({FlagCode}, MaxOtherFlags)}]

InitRecommendations ==
    /\ Idle(0)
    /\ \E a \in GeneratorArgs :
           unit = [fn |-> "generateRecommendations", arg |-> a,
                   result |-> <<>>, applied |-> FALSE]

\* generateRecommendations(riskScore, onChain, social, code)
Recommend ==
    /\ unit.fn = "generateRecommendations"
    /\ ~unit.applied
    /\ unit' = [unit EXCEPT
                   !.result = generateRecommendations(unit.arg.riskScore, unit.arg.onChain,
                                                      unit.arg.social, unit.arg.code),
                   !.applied = TRUE]
    /\ UNCHANGED <<pc, tokenMint, info, sub, join, settled, invoked, outcome, console,
                 tokenCache, resolve, bulk>>

SpecRecommendations == InitRecommendations /\ [][Recommend]_vars

InitSummary ==
    /\ Idle(0)
    /\ \E a \in GeneratorArgs :
           unit = [fn |-> "generateSummary", arg |-> a,
                   result |-> generateSummary(Exact(0), NoAnalysis, NoAnalysis, NoAnalysis),
                   applied |-> FALSE]

\* generateSummary(riskScore, onChain, social, code)
Summarize ==
    /\ unit.fn = "generateSummary"
    /\ ~unit.applied
    /\ unit' = [unit EXCEPT
                   !.result = generateSummary(unit.arg.riskScore, unit.arg.onChain,
                                              unit.arg.social, unit.arg.code),
                   !.applied = TRUE]
    /\ UNCHANGED <<pc, tokenMint, info, sub, join, settled, invoked, outcome, console,
                 tokenCache, resolve, bulk>>

SpecSummary == InitSummary /\ [][Summarize]_vars

(***************************************************************************)
(* ChainAnalyzer: the three on-chain risks and the result that             *)
(* analyzeTokenEconomics builds from them.                                 *)
(***************************************************************************)
\* FlagConcentration above is the third of these texts for 95.0
\* 'Mint authority not renounced - developers can create unlimited tokens'
IssueMintAuthority ==
    FlagMintUpper \o <<" ","-"," ","d","e","v","e","l","o","p","e","r","s"," ","c","a","n"," ","c","r","e","a","t","e"," ","u","n","l","i","m","i","t","e","d"," ","t","o","k","e","n","s">>
\* 'Liquidity pool not locked - developers can remove all liquidity instantly'
IssueLiquidityPool ==
    <<"L","i","q","u","i","d","i","t","y"," ","p","o","o","l"," ","n","o","t"," ","l","o","c","k","e","d"," ","-"," ","d","e","v","e","l","o","p","e","r","s"," ","c","a","n"," ","r","e","m","o","v","e"," ","a","l","l"," ","l","i","q","u","i","d","i","t","y"," ","i","n","s","t","a","n","t","l","y">>
\* 'Could not analyze holder distribution'
IssueHolderUnknown ==
    <<"C","o","u","l","d"," ","n","o","t"," ","a","n","a","l","y","z","e"," ","h","o","l","d","e","r"," ","d","i","s","t","r","i","b","u","t","i","o","n">>
\* 'Top 3 wallets hold '
IssueTop3Prefix ==
    <<"T","o","p"," ","3"," ","w","a","l","l","e","t","s"," ","h","o","l","d"," ">>
\* '% of supply - '
IssueTop3Middle ==
    <<"%"," ","o","f"," ","s","u","p","p","l","y"," ","-"," ">>
\* 'extreme', 'high', 'moderate'
WordExtreme == <<"e","x","t","r","e","m","e">>
WordHigh == <<"h","i","g","h">>
WordModerate == <<"m","o","d","e","r","a","t","e">>
\* ' concentration'
IssueTop3Suffix == <<" ">> \o SubConcentration

DigitChar(d) == CASE d = 0 -> "0" [] d = 1 -> "1" [] d = 2 -> "2" [] d = 3 -> "3"
                  [] d = 4 -> "4" [] d = 5 -> "5" [] d = 6 -> "6" [] d = 7 -> "7"
                  [] d = 8 -> "8" [] OTHER -> "9"

\* x.toFixed(1), for 0 <= x < 1000: x is within half a unit in the last
\* place of a multiple of 0.1
ToFixed1(x) ==
    LET whole == x.tenths \div 10
    IN  (IF whole >= 100 THEN <<DigitChar(whole \div 100)>> ELSE <<>>)
        \o (IF whole >= 10 THEN <<DigitChar((whole \div 10) % 10)>> ELSE <<>>)
        \o <<DigitChar(whole % 10), ".", DigitChar(x.tenths % 10)>>

\* x > t, t an integer literal
FGt(x, t) == ~x.nan /\ (x.tenths > 10 * t \/ (x.tenths = 10 * t /\ x.eps > 0))

analyzeMintAuthority(tokenInfo) ==
    [score |-> IF tokenInfo.mintAuthorityRenounced THEN 0 ELSE 100,
     issues |-> IF tokenInfo.mintAuthorityRenounced THEN <<>> ELSE <<IssueMintAuthority>>]

\* holders.slice(0, 3).reduce((sum, holder) => sum + holder.percentage, 0)
top3Percentage(holders) ==
    LET first == SubSeq(holders, 1, Min(3, Len(holders)))
        s1 == IF Len(first) >= 1 THEN FAdd(Exact(0), first[1]) ELSE Exact(0)
        s2 == IF Len(first) >= 2 THEN FAdd(s1, first[2]) ELSE s1
    IN  IF Len(first) >= 3 THEN FAdd(s2, first[3]) ELSE s2

Top3Issue(p, word) ==
    IssueTop3Prefix \o ToFixed1(p) \o IssueTop3Middle \o word \o IssueTop3Suffix

\* mutant: the thresholds are inclusive
analyzeHolderConcentrationInclusive(holders) ==
    IF Len(holders) = 0 THEN [score |-> 50, issues |-> <<IssueHolderUnknown>>]
    ELSE LET p == top3Percentage(holders)
         IN  IF FGe(p, 90) THEN [score |-> 100, issues |-> <<Top3Issue(p, WordExtreme)>>]
             ELSE IF FGe(p, 70) THEN [score |-> 75, issues |-> <<Top3Issue(p, WordHigh)>>]
             ELSE IF FGe(p, 50) THEN [score |-> 50, issues |-> <<Top3Issue(p, WordModerate)>>]
             ELSE [score |-> 0, issues |-> <<>>]

analyzeHolderConcentration(holders) ==
    IF Len(holders) = 0 THEN [score |-> 50, issues |-> <<IssueHolderUnknown>>]
    ELSE LET p == top3Percentage(holders)
         IN  IF FGt(p, 90) THEN [score |-> 100, issues |-> <<Top3Issue(p, WordExtreme)>>]
             ELSE IF FGt(p, 70) THEN [score |-> 75, issues |-> <<Top3Issue(p, WordHigh)>>]
             ELSE IF FGt(p, 50) THEN [score |-> 50, issues |-> <<Top3Issue(p, WordModerate)>>]
             ELSE [score |-> 0, issues |-> <<>>]

analyzeLiquidityPool(lpInfo) ==
    [score |-> IF lpInfo.lpLocked THEN 0 ELSE 100,
     issues |-> IF lpInfo.lpLocked THEN <<>> ELSE <<IssueLiquidityPool>>]

\* Math.round(mintRisk.score * 0.4 + holderRisk.score * 0.35 + lpRisk.score * 0.25):
\* for the scores 0, 50, 75, 100 every product and sum is a multiple of 0.25
\* below 128, which doubles hold exactly
totalRiskScore(mintRisk, holderRisk, lpRisk) ==
    (40 * mintRisk.score + 35 * holderRisk.score + 25 * lpRisk.score + 50) \div 100

\* the result analyzeTokenEconomics builds from the three risks
EconomicsResult(mintRisk, holderRisk, lpRisk) ==
    SubAnalysis(Num(totalRiskScore(mintRisk, holderRisk, lpRisk)),
                Flags(mintRisk.issues \o holderRisk.issues \o lpRisk.issues))

\* percentages of holders, in tenths: the values of the tests (50, 30, 20, 10),
\* 0, 40 and 30.5
HolderTenths == {0, 100, 200, 300, 305, 400, 500}

RECURSIVE SumTenths(_)
SumTenths(ts) == IF ts = <<>> THEN 0 ELSE Head(ts) + SumTenths(Tail(ts))

\* holder lists: the percentages are shares of one total
HolderLists ==
    {[k \in DOMAIN ts |-> Dbl(ts[k], 0)] :
        ts \in {t \in SeqsUpTo(HolderTenths, MaxHolders) : SumTenths(t) <= 1000}}

EconomicsArgs ==
    [tokenInfo : [mintAuthorityRenounced : BOOLEAN],
     holders : HolderLists,
     lpInfo : [lpLocked : BOOLEAN]]

NoRisk == [score |-> 0, issues |-> <<>>]

InitChainAnalyzer ==
    /\ Idle(0)
    /\ \E a \in EconomicsArgs :
           unit = [fn |-> "analyzeTokenEconomics", arg |-> a,
                   holderRisk |-> NoRisk, result |-> NoAnalysis,
                   recommendations |-> <<>>, applied |-> 0]

\* lines 424-444: the three risks are analyzed and put together
AnalyzeEconomics ==
    /\ unit.fn = "analyzeTokenEconomics"
    /\ unit.applied = 0
    /\ LET mintRisk == analyzeMintAuthority(unit.arg.tokenInfo)
           holderRisk == analyzeHolderConcentration(unit.arg.holders)
           lpRisk == analyzeLiquidityPool(unit.arg.lpInfo)
       IN  unit' = [unit EXCEPT !.holderRisk = holderRisk,
                                !.result = EconomicsResult(mintRisk, holderRisk, lpRisk),
                                !.applied = 1]
    /\ UNCHANGED <<pc, tokenMint, info, sub, join, settled, invoked, outcome, console,
                 tokenCache, resolve, bulk>>

\* lines 757-760: the detector scores the on-chain result, with clean social
\* and code results, and generates the recommendations
RecommendOnChain ==
    /\ unit.fn = "analyzeTokenEconomics"
    /\ unit.applied = 1
    /\ LET clean == SubAnalysis(Num(0), Flags(<<>>))
           riskScore == calculateRiskScore(unit.result, clean, clean)
       IN  unit' = [unit EXCEPT
                      !.recommendations =
                          generateRecommendations(riskScore, unit.result, clean, clean),
                      !.applied = 2]
    /\ UNCHANGED <<pc, tokenMint, info, sub, join, settled, invoked, outcome, console,
                 tokenCache, resolve, bulk>>

NextChainAnalyzer == AnalyzeEconomics \/ RecommendOnChain

SpecChainAnalyzer == InitChainAnalyzer /\ [][NextChainAnalyzer]_vars

(***************************************************************************)
(* The collaborators the detector is constructed with: ChainAnalyzer       *)
(* (lines 396-720), SocialAnalyzer (lines 975-995) and CodeAnalyzer        *)
(* (src/api-test-simple.js lines 57-71), and analyzeToken on top of them.  *)
(***************************************************************************)
\* values of Math.random(), in hundredths
RandomDraws == {0, 25, 50, 75, 99}

safeTokens ==
    {"So11111111111111111111111111111111111111112",
     "EPjFWdd5AufqSSqeM2qN1xzybapC8G4wEGGkZwyTDt1v",
     "Es9vMFrzaCERmJfrF3MD5YNpsrZ3tqKfv8GbpowcGYPS",
     "EKpQGSJtjMFqKZ9KQanSqYXRcF8fBopzLHYxdM65zcjm",
     "4k3Dyjzvzp8eMZWUXbBCjEvwSkkk59S5iCNLY3QrkX6R"}
riskyTokens ==
    {"Coq3LbB52jzCxk5W8SJTyK3SB83sYTKEjs2JmHaoSGxS",
     "6dhTynDkYsVM7cbF7TKfC9DWB636TcEM935fq7JzL2ES",
     "EKpQGSJtjMFqKZ9KQanSqYXRcF8fBopzLHYxdM65zcjm"}

\* the identifiers analyzeToken is called with: SOL, BONK, an address that is
\* in neither list, and two strings new PublicKey rejects
ShippedMints ==
    {"So11111111111111111111111111111111111111112",
     "6dhTynDkYsVM7cbF7TKfC9DWB636TcEM935fq7JzL2ES",
     "DezXAZ8z7PnrnRJjz3wXBoRgixCa6xjnB7YaB1pPB263",
     "test-mint-address", "invalid-token"}

\* new PublicKey(address) does not throw
isValidSolanaAddress(address) ==
    address \in safeTokens \cup riskyTokens
                \cup {"DezXAZ8z7PnrnRJjz3wXBoRgixCa6xjnB7YaB1pPB263"}

\* what a collaborator's promise settles to: it rejects, or resolves to value
Resolved(value) == [threw |-> FALSE, value |-> value]

\* ChainAnalyzer.getTokenInfo: the object built from the RPC answers, or the
\* defaults of the catch block; neither has a symbol property
getTokenInfo(rpcFailed) ==
    IF rpcFailed THEN Resolved(TokenInfo("")) ELSE Resolved(TokenInfo(""))

\* ChainAnalyzer.getDemoAnalysis, random the value Math.random() gives for
\* the riskScore
getDemoAnalysis(tokenMintAddress, random) ==
    IF tokenMintAddress \in safeTokens
    THEN SubAnalysis(Num((random * 20) \div 100), Flags(<<>>))
    ELSE IF tokenMintAddress \in riskyTokens
    THEN SubAnalysis(Num(60 + (random * 30) \div 100),
                     Flags(<<<<"H","i","g","h"," ","s","o","c","i","a","l"," ","m","e","d","i","a"," ","h","y","p","e"," ","w","i","t","h","o","u","t"," ","f","u","n","d","a","m","e","n","t","a","l","s">>,
                             <<"A","n","o","n","y","m","o","u","s"," ","d","e","v","e","l","o","p","m","e","n","t"," ","t","e","a","m">>,
                             <<"L","i","m","i","t","e","d"," ","l","i","q","u","i","d","i","t","y"," ","d","e","p","t","h">>>>))
    ELSE SubAnalysis(Num(40 + (random * 30) \div 100),
                     Flags(<<<<"N","e","w"," ","t","o","k","e","n"," ","w","i","t","h"," ","l","i","m","i","t","e","d"," ","t","r","a","d","i","n","g"," ","h","i","s","t","o","r","y">>,
                             <<"V","e","r","i","f","y"," ","p","r","o","j","e","c","t"," ","l","e","g","i","t","i","m","a","c","y"," ","b","e","f","o","r","e"," ","i","n","v","e","s","t","i","n","g">>>>))

\* the process environment and what the RPC calls and Math.random() give
\* during one analyzeTokenEconomics call
ChainEnvs ==
    [demoMode : BOOLEAN, random : RandomDraws,
     tokenInfo : [mintAuthorityRenounced : BOOLEAN],
     holders : {<<Exact(50), Exact(30), Exact(20)>>, <<Exact(20), Exact(15), Exact(10)>>},
     lpInfo : [lpLocked : BOOLEAN]]

\* mutant: an invalid address makes the call fail
analyzeTokenEconomicsThrowing(tokenMintAddress, env) ==
    IF ~isValidSolanaAddress(tokenMintAddress)
    THEN [threw |-> TRUE, value |-> NoAnalysis]
    ELSE IF env.demoMode
    THEN Resolved(getDemoAnalysis(tokenMintAddress, env.random))
    ELSE Resolved(EconomicsResult(analyzeMintAuthority(env.tokenInfo),
                                  analyzeHolderConcentration(env.holders),
                                  analyzeLiquidityPool(env.lpInfo)))

\* ChainAnalyzer.analyzeTokenEconomics: an address new PublicKey rejects
\* throws into the catch block, which returns getDemoAnalysis
analyzeTokenEconomics(tokenMintAddress, env) ==
    IF ~isValidSolanaAddress(tokenMintAddress)
    THEN Resolved(getDemoAnalysis(tokenMintAddress, env.random))
    ELSE IF env.demoMode
    THEN Resolved(getDemoAnalysis(tokenMintAddress, env.random))
    ELSE Resolved(EconomicsResult(analyzeMintAuthority(env.tokenInfo),
                                  analyzeHolderConcentration(env.holders),
                                  analyzeLiquidityPool(env.lpInfo)))

\* SocialAnalyzer.analyzeSocialSignals: riskScore is Math.random() * 100
analyzeSocialSignals(random) ==
    Resolved(SubAnalysis(Num(random),
        Flags(IF random > 70
              THEN <<<<"S","u","s","p","i","c","i","o","u","s"," ","s","o","c","i","a","l"," ","m","e","d","i","a"," ","a","c","t","i","v","i","t","y"," ","d","e","t","e","c","t","e","d">>,
                     <<"P","o","t","e","n","t","i","a","l"," ","b","o","t"," ","n","e","t","w","o","r","k"," ","p","r","o","m","o","t","i","n","g"," ","t","o","k","e","n">>>>
              ELSE IF random > 50
              THEN <<<<"L","i","m","i","t","e","d"," ","g","e","n","u","i","n","e"," ","c","o","m","m","u","n","i","t","y"," ","e","n","g","a","g","e","m","e","n","t">>>>
              ELSE <<>>)))

\* CodeAnalyzer.analyzeCode: riskScore is Math.random() * 100
analyzeCode(random) ==
    Resolved(SubAnalysis(Num(random),
        Flags(IF random > 70
              THEN <<<<"P","o","t","e","n","t","i","a","l"," ","b","a","c","k","d","o","o","r"," ","f","u","n","c","t","i","o","n","s"," ","d","e","t","e","c","t","e","d">>,
                     <<"U","p","g","r","a","d","e","a","b","l","e"," ","c","o","n","t","r","a","c","t"," ","w","i","t","h","o","u","t"," ","t","i","m","e","l","o","c","k">>>>
              ELSE <<>>)))

\* what the i-th sub-analyzer's promise may settle to for this identifier
ShippedSettlements(tokenMintAddress, i) ==
    CASE i = 1 -> {analyzeTokenEconomics(tokenMintAddress, env) : env \in ChainEnvs}
      [] i = 2 -> {analyzeSocialSignals(random) : random \in RandomDraws}
      [] OTHER -> {analyzeCode(random) : random \in RandomDraws}

InitShipped == Idle(1) /\ unit = NoUnit

\* lines 457-480: the getTokenInfo promise settles
ShippedGetTokenInfoSettles(c) ==
    /\ info[c].state = "pending"
    /\ ThreadFree
    /\ \E rpcFailed \in BOOLEAN :
           LET settlement == getTokenInfo(rpcFailed)
           IN  info' = [info EXCEPT ![c] =
                   IF settlement.threw
                   THEN InfoRejected(CollaboratorError("getTokenInfo"))
                   ELSE InfoFulfilled(settlement.value)]
    /\ UNCHANGED <<pc, tokenMint, sub, join, settled, invoked, outcome, console, unit,
                   tokenCache, resolve, bulk>>

\* the promise of the i-th sub-analyzer settles, and Promise.all reacts
ShippedAnalyzerSettles(c, i) ==
    /\ sub[c][i].state = "pending"
    /\ ThreadFree
    /\ \E settlement \in ShippedSettlements(tokenMint[c], i) :
           IF settlement.threw
           THEN LET e == CollaboratorError(AnalyzerName(i))
                IN  /\ sub' = [sub EXCEPT ![c][i] = Rejected(e)]
                    /\ join' = [join EXCEPT ![c] = RejectElement(@, e)]
           ELSE /\ sub' = [sub EXCEPT ![c][i] = Fulfilled(settlement.value)]
                /\ join' = [join EXCEPT ![c] = ResolveElement(@, i, settlement.value)]
    /\ settled' = [settled EXCEPT ![c] = Append(@, i)]
    /\ UNCHANGED <<pc, tokenMint, info, invoked, outcome, console, unit, tokenCache,
                   resolve, bulk>>

NextShipped ==
    \E c \in Calls :
        \/ CallWith(c, ShippedMints)
        \/ ShippedGetTokenInfoSettles(c)
        \/ ResumeTokenInfo(c)
        \/ \E i \in Analyzers : Invoke(c, i)
        \/ \E i \in Analyzers : ShippedAnalyzerSettles(c, i)
        \/ ResumeAll(c)

SpecShipped == InitShipped /\ [][NextShipped]_vars

(***************************************************************************)
(* Properties.                                                             *)
(***************************************************************************)
ReturnedCalls == {c \in Calls : outcome[c].status = "returned"}
Settled(p) == p.state \in {"fulfilled", "rejected"}
SubAnalyzerNames == {AnalyzerName(i) : i \in Analyzers}

\* the tier of an integer score by the table of the classifier
TierOf(s) == CASE s >= 80 -> "CRITICAL"
               [] s \in 60..79 -> "HIGH"
               [] s \in 40..59 -> "MEDIUM"
               [] s \in 20..39 -> "LOW"
               [] OTHER -> "SAFE"

TierRank(t) == CASE t = "SAFE" -> 0
                 [] t = "LOW" -> 1
                 [] t = "MEDIUM" -> 2
                 [] t = "HIGH" -> 3
                 [] OTHER -> 4

\* C1: in every report analyzeToken returns, riskLevel is the tier of the
\* reported (rounded) riskScore.
C1_LevelIsTierOfReportedScore ==
    \A c \in ReturnedCalls :
        outcome[c].report.riskLevel = TierOf(outcome[c].report.riskScore)

\* x <= t, t an integer
FLe(x, t) == ~x.nan /\ (x.tenths < 10 * t \/ (x.tenths = 10 * t /\ x.eps <= 0))

\* C2: whatever the three sub-scores are (negative and above 100 included),
\* the composite score of calculateRiskScore and the riskScore of the report
\* lie in [0,100].
C2_CompositeInRange ==
    \A c \in ReturnedCalls :
        LET a == outcome[c].report.analysis
            composite == calculateRiskScore(a.onChain, a.social, a.code)
        IN  /\ FGe(composite, 0)
            /\ FLe(composite, 100)
            /\ outcome[c].report.riskScore \in 0..100

\* a report was returned although one sub-score was above 100 and one negative
C2_Witness ==
    \E c \in ReturnedCalls :
        /\ outcome[c].report.analysis.onChain.riskScore = Num(150)
        /\ outcome[c].report.analysis.social.riskScore = Num(-10)
        /\ outcome[c].report.analysis.code.riskScore = Num(100)
        /\ outcome[c].report.riskScore = 70

InRange(v) == v.kind = "number" /\ v.val \in 0..100

\* C3: when the three sub-scores lie in [0,100], the reported composite is
\* round-half-up(0.5*onChain + 0.3*social + 0.2*code), that is
\* floor((5*onChain + 3*social + 2*code + 5) / 10); 80/60/40 gives 66 and
\* HIGH, 60/45/30 gives 50 and MEDIUM.
C3_RoundHalfUpOfWeightedSum ==
    \A c \in ReturnedCalls :
        LET r == outcome[c].report
            a == r.analysis.onChain.riskScore
            b == r.analysis.social.riskScore
            d == r.analysis.code.riskScore
        IN  InRange(a) /\ InRange(b) /\ InRange(d) =>
                /\ r.riskScore = (5 * a.val + 3 * b.val + 2 * d.val + 5) \div 10
                /\ (a.val = 80 /\ b.val = 60 /\ d.val = 40) =>
                       (r.riskScore = 66 /\ r.riskLevel = "HIGH")
                /\ (a.val = 60 /\ b.val = 45 /\ d.val = 30) =>
                       (r.riskScore = 50 /\ r.riskLevel = "MEDIUM")

\* C4: getRiskLevel classifies every score by inclusive lower boundaries
\* (80 and above CRITICAL, 60..79 HIGH, 40..59 MEDIUM, 20..39 LOW, below 20
\* SAFE), and its result never decreases when the score increases.
C4_InclusiveLowerBoundaries ==
    /\ [](unit.fn = "getRiskLevel" /\ unit.result # "none" =>
            unit.result = TierOf(unit.arg))
    /\ [][unit.result # "none" /\ unit'.arg >= unit.arg =>
            TierRank(unit'.result) >= TierRank(unit.result)]_vars

\* the score 80, a boundary, was classified
C4_Witness == unit.fn = "getRiskLevel" /\ unit.arg = 80 /\ unit.result = "CRITICAL"

\* C5: when getTokenInfo resolves to null, or fails, no sub-analyzer is
\* invoked in that call, and the call ends by throwing the not-found error,
\* respectively the error getTokenInfo failed with.
C5_NotFoundInvokesNoAnalyzer ==
    \A c \in Calls :
        /\ (info[c].state = "fulfilled" /\ info[c].value.isNull) =>
              /\ \A n \in SubAnalyzerNames : invoked[c][n] = 0
              /\ outcome[c].status # "returned"
              /\ pc[c] = "done" => outcome[c] = Thrown(NotFoundError)
        /\ info[c].state = "rejected" =>
              /\ \A n \in SubAnalyzerNames : invoked[c][n] = 0
              /\ outcome[c].status # "returned"
              /\ pc[c] = "done" => outcome[c] = Thrown(info[c].reason)

\* a call ended with the not-found error after getTokenInfo resolved to null
C5_Witness ==
    \E c \in Calls :
        /\ pc[c] = "done"
        /\ info[c] = InfoFulfilled(Null)
        /\ outcome[c].status = "thrown"
        /\ outcome[c].error.message = "Token not found or invalid"

\* C6: when exactly one sub-analyzer fails and the other two succeed, the
\* call ends by throwing that same error, unchanged, and returns no report.
C6_SingleFailurePropagates ==
    \A c \in Calls : \A i \in Analyzers :
        ( /\ pc[c] = "done"
          /\ sub[c][i].state = "rejected"
          /\ \A k \in Analyzers \ {i} : sub[c][k].state = "fulfilled" )
        => outcome[c] = Thrown(sub[c][i].reason)

\* the social sub-analyzer failed, chain and code succeeded, the call threw
C6_Witness ==
    \E c \in Calls :
        /\ pc[c] = "done"
        /\ sub[c][1].state = "fulfilled"
        /\ sub[c][2].state = "rejected"
        /\ sub[c][3].state = "fulfilled"
        /\ outcome[c].error = CollaboratorError("analyzeSocialSignals")

\* C7 as stated: a call that has completed, with a report or an error, has
\* no sub-analyzer call still in flight.
C7_CompletesAfterAllAnalyzers ==
    \A c \in Calls :
        pc[c] = "done" => \A i \in Analyzers : sub[c][i].state # "pending"

\* C7 as amended: a call returns a report only after all three sub-analyzer
\* calls have been fulfilled; a completed call of which a sub-analyzer has
\* failed has thrown the error of a failed sub-analyzer, whether or not the
\* other sub-analyzer calls are still in flight.
C7_ReturnsAfterAllFailsOnFirst ==
    \A c \in Calls :
        /\ outcome[c].status = "returned" =>
               \A i \in Analyzers : sub[c][i].state = "fulfilled"
        /\ (pc[c] = "done" /\ \E i \in Analyzers : sub[c][i].state = "rejected") =>
               /\ outcome[c].status = "thrown"
               /\ \E i \in Analyzers : /\ sub[c][i].state = "rejected"
                                        /\ outcome[c].error = sub[c][i].reason

\* a call has failed while two of its sub-analyzer calls are still in flight
C7_Witness ==
    \E c \in Calls :
        /\ outcome[c].status = "thrown"
        /\ sub[c][1].state = "rejected"
        /\ sub[c][2].state = "pending"
        /\ sub[c][3].state = "pending"

\* C8: once getTokenInfo has returned metadata, the three sub-analyzers are
\* all invoked before the call waits on any of them, none settles while
\* another is not yet invoked, and the report is built from the result of
\* each sub-analyzer whatever the order in which the three settled.
C8_InvokedTogetherOrderIrrelevant ==
    \A c \in Calls :
        /\ pc[c] = "awaitAll" => \A n \in SubAnalyzerNames : invoked[c][n] = 1
        /\ (pc[c] = "done" /\ info[c].state = "fulfilled" /\ ~info[c].value.isNull) =>
               \A n \in SubAnalyzerNames : invoked[c][n] = 1
        /\ \A i, k \in Analyzers : Settled(sub[c][i]) => sub[c][k].state # "none"
        /\ outcome[c].status = "returned" =>
               outcome[c].report = CompileReport(tokenMint[c], info[c].value,
                   sub[c][1].value, sub[c][2].value, sub[c][3].value)

\* a report was returned after code settled first and chain last, the three
\* results being different
C8_Witness ==
    \E c \in ReturnedCalls :
        /\ settled[c] = <<3, 2, 1>>
        /\ sub[c][1].value.riskScore = Num(80)
        /\ sub[c][2].value.riskScore = Num(60)
        /\ sub[c][3].value.riskScore = Num(40)
        /\ outcome[c].report.riskScore = 66

\* C9: a call returns a report exactly when getTokenInfo and all three
\* sub-analyzers succeeded, the report then holds the three results as its
\* analysis; every other completed call has thrown and produced no report.
C9_AllOrNothing ==
    \A c \in Calls :
        pc[c] = "done" =>
            IF outcome[c].status = "returned"
            THEN /\ info[c].state = "fulfilled" /\ ~info[c].value.isNull
                 /\ \A i \in Analyzers : sub[c][i].state = "fulfilled"
                 /\ outcome[c].report.analysis = [onChain |-> sub[c][1].value,
                                                   social |-> sub[c][2].value,
                                                   code |-> sub[c][3].value]
            ELSE /\ outcome[c].status = "thrown"
                 /\ outcome[c].report = NoReport

\* a report was returned that holds the flagged results of the three
\* sub-analyzers
C9_Witness ==
    \E c \in ReturnedCalls :
        /\ outcome[c].report.analysis.onChain.redFlags = Flags(<<FlagMintLower, FlagLP>>)
        /\ outcome[c].report.analysis.social.redFlags = Flags(<<FlagSocial>>)
        /\ outcome[c].report.analysis.code.redFlags = Flags(<<FlagCode>>)

\* C10: within one call, getTokenInfo and each sub-analyzer are invoked at
\* most once, whatever the outcomes.
C10_NoRetry ==
    \A c \in Calls : \A n \in Collaborators : invoked[c][n] <= 1

\* a call has failed on a sub-analyzer error and every collaborator was
\* invoked exactly once
C10_Witness ==
    \E c \in Calls :
        /\ pc[c] = "done"
        /\ outcome[c].status = "thrown"
        /\ sub[c][2].state = "rejected"
        /\ \A i \in Analyzers \ {2} : Settled(sub[c][i])
        /\ \A n \in Collaborators : invoked[c][n] = 1

\* the errors that call c has met: the rejection of getTokenInfo, the
\* not-found error after a null tokenInfo, the rejections of sub-analyzers
ErrorsMet(c) ==
    (IF info[c].state = "rejected" THEN {info[c].reason} ELSE {})
        \cup (IF info[c].state = "fulfilled" /\ info[c].value.isNull
              THEN {NotFoundError} ELSE {})
        \cup {sub[c][i].reason : i \in {k \in Analyzers : sub[c][k].state = "rejected"}}

\* the console entries written by call c with console.error
ErrorEntries(c) ==
    {k \in DOMAIN console : console[k].call = c /\ console[k].method = "error"}

\* C11 as stated: a call that has failed has re-raised the error it met and
\* has written nothing to the console.
C11_FailsWithoutLogging ==
    \A c \in Calls :
        outcome[c].status = "thrown" =>
            /\ outcome[c].error \in ErrorsMet(c)
            /\ \A k \in DOMAIN console : console[k].call # c

\* C11 as amended: a call that has failed has re-raised the error it met,
\* unchanged, after writing exactly one console.error line that carries the
\* message of that error; a call that has not failed has written none.
C11_LogsOnceAndRethrows ==
    \A c \in Calls :
        /\ outcome[c].status = "thrown" =>
              /\ outcome[c].error \in ErrorsMet(c)
              /\ Cardinality(ErrorEntries(c)) = 1
              /\ \A k \in ErrorEntries(c) :
                     console[k].text = "Error analyzing token: " \o outcome[c].error.message
        /\ outcome[c].status # "thrown" => ErrorEntries(c) = {}

\* a call failed on the rejection of the code sub-analyzer and the console
\* holds the line console.error wrote for it
C11_Witness ==
    \E c \in Calls :
        /\ outcome[c] = Thrown(CollaboratorError("analyzeCode"))
        /\ \E k \in DOMAIN console :
               console[k] = ConsoleError(c, "analyzeCode failed")

\* an application of generateRecommendations, of generateSummary
Recommended == unit.fn = "generateRecommendations" /\ unit.applied
Summarized == unit.fn = "generateSummary" /\ unit.applied

\* the number of places of seq that hold x
Count(seq, x) == Cardinality({k \in DOMAIN seq : seq[k] = x})
\* the number of flags that contain one of the substrings
Matching(flags, subs) ==
    Cardinality({k \in DOMAIN flags : \E sb \in subs : Includes(flags[k], sb)})

MintWarning == "Mint authority not renounced - unlimited token creation possible"
LiquidityWarning == "Liquidity not locked - developers can remove funds anytime"
ConcentrationWarning == "High token concentration - single wallet controls majority supply"
SocialWarning == "Social media shows suspicious activity"
CodeWarning == "Contract contains potential vulnerabilities"

\* the two headline strings of the band of a score given in tenths
HeadlinesOf(t) ==
    CASE t >= 800 -> <<"DO NOT BUY - HIGH RUG PULL RISK", "Avoid this token completely">>
      [] t >= 600 /\ t < 800 ->
            <<"EXTREME CAUTION - High risk detected", "Only invest what you can afford to lose">>
      [] t >= 400 /\ t < 600 ->
            <<"MODERATE CAUTION - Some red flags present", "Research thoroughly before investing">>
      [] OTHER ->
            <<"APPEARS LEGITIMATE - Low risk detected", "Still exercise normal caution with new tokens">>

NoneFlagged(a) ==
    /\ OrEmpty(a.onChain.redFlags) = <<>>
    /\ OrEmpty(a.social.redFlags) = <<>>
    /\ OrEmpty(a.code.redFlags) = <<>>

\* C12: the first two recommendations are the two headline strings of the
\* band of the score (>= 80, >= 60, >= 40, else); 85 starts with 'DO NOT BUY
\* - HIGH RUG PULL RISK', 55 with 'MODERATE CAUTION - Some red flags
\* present', 15 with 'APPEARS LEGITIMATE - Low risk detected'; with no flags
\* the result has exactly two elements.
C12_HeadlinesOfBand ==
    Recommended =>
        /\ Len(unit.result) >= 2
        /\ SubSeq(unit.result, 1, 2) = HeadlinesOf(unit.arg.riskScore.tenths)
        /\ unit.arg.riskScore = Exact(85) =>
               unit.result[1] = "DO NOT BUY - HIGH RUG PULL RISK"
        /\ unit.arg.riskScore = Exact(55) =>
               unit.result[1] = "MODERATE CAUTION - Some red flags present"
        /\ unit.arg.riskScore = Exact(15) =>
               unit.result[1] = "APPEARS LEGITIMATE - Low risk detected"
        /\ NoneFlagged(unit.arg) => Len(unit.result) = 2

\* generateRecommendations(80, {}, {}, {}) gave the two headlines of the
\* highest band and nothing else
C12_Witness ==
    /\ Recommended
    /\ unit.arg.riskScore = Exact(80)
    /\ unit.arg.onChain.redFlags = NoFlags
    /\ unit.arg.social.redFlags = NoFlags
    /\ unit.arg.code.redFlags = NoFlags
    /\ unit.result = <<"DO NOT BUY - HIGH RUG PULL RISK", "Avoid this token completely">>

\* the group of a recommendation: headline, on-chain, social, code
GroupOf(str) ==
    CASE str \in {MintWarning, LiquidityWarning, ConcentrationWarning} -> 1
      [] str = SocialWarning -> 2
      [] str = CodeWarning -> 3
      [] OTHER -> 0

RECURSIVE WarningsInFlagOrder(_)
\* for each flag in turn, the warnings of the substrings it contains
WarningsInFlagOrder(flags) ==
    IF flags = <<>> THEN <<>>
    ELSE (IF Matching(<<Head(flags)>>, {SubMintAuthority}) = 1
          THEN <<MintWarning>> ELSE <<>>)
         \o (IF Matching(<<Head(flags)>>, {SubLiquidity, SubLP}) = 1
             THEN <<LiquidityWarning>> ELSE <<>>)
         \o (IF Matching(<<Head(flags)>>, {SubConcentration, SubDistribution}) = 1
             THEN <<ConcentrationWarning>> ELSE <<>>)
         \o WarningsInFlagOrder(Tail(flags))

IsOnChainWarning(str) == GroupOf(str) = 1

\* C13: the recommendations are ordered: the two headlines, then the
\* on-chain warnings in the order of the on-chain flags, then the social
\* warning, then the code warning.
C13_RecommendationOrder ==
    Recommended =>
        /\ \A k \in DOMAIN unit.result : GroupOf(unit.result[k]) = 0 <=> k <= 2
        /\ \A k, l \in DOMAIN unit.result :
               k < l => GroupOf(unit.result[k]) <= GroupOf(unit.result[l])
        /\ SelectSeq(unit.result, IsOnChainWarning)
               = WarningsInFlagOrder(OrEmpty(unit.arg.onChain.redFlags))

\* headlines, then the liquidity warning of the first flag and the mint
\* warning of the second, then the social warning, then the code warning
C13_Witness ==
    /\ Recommended
    /\ unit.arg.riskScore = Exact(70)
    /\ unit.arg.onChain.redFlags = Flags(<<FlagLP, FlagMintLower>>)
    /\ unit.result = <<"EXTREME CAUTION - High risk detected",
                       "Only invest what you can afford to lose",
                       LiquidityWarning, MintWarning, SocialWarning, CodeWarning>>

\* C14: on-chain warnings are not deduplicated: there are as many mint
\* warnings as on-chain flags containing 'mint authority', as many liquidity
\* warnings as flags containing 'liquidity' or 'LP', and as many
\* concentration warnings as flags containing 'concentration' or
\* 'distribution'.
C14_NoDeduplication ==
    Recommended =>
        LET flags == OrEmpty(unit.arg.onChain.redFlags)
        IN  /\ Count(unit.result, MintWarning) = Matching(flags, {SubMintAuthority})
            /\ Count(unit.result, LiquidityWarning) = Matching(flags, {SubLiquidity, SubLP})
            /\ Count(unit.result, ConcentrationWarning)
                   = Matching(flags, {SubConcentration, SubDistribution})

\* the same mint-authority flag given twice produced two mint warnings
C14_Witness ==
    /\ Recommended
    /\ unit.arg.onChain.redFlags = Flags(<<FlagMintLower, FlagLP, FlagMintLower>>)
    /\ Count(unit.result, MintWarning) = 2
    /\ Count(unit.result, LiquidityWarning) = 1

\* C15: the social warning is there exactly once when social.redFlags is a
\* non-empty list and not at all when it is empty or absent, however many
\* social flags there are; the same for the code warning and code.redFlags.
C15_OneWarningPerSource ==
    Recommended =>
        /\ Count(unit.result, SocialWarning)
               = IF Len(OrEmpty(unit.arg.social.redFlags)) > 0 THEN 1 ELSE 0
        /\ Count(unit.result, CodeWarning)
               = IF Len(OrEmpty(unit.arg.code.redFlags)) > 0 THEN 1 ELSE 0

\* two social flags produced one social warning, an absent code.redFlags none
C15_Witness ==
    /\ Recommended
    /\ unit.arg.social.redFlags = Flags(<<FlagSocial, FlagSocial>>)
    /\ unit.arg.code.redFlags = NoFlags
    /\ Count(unit.result, SocialWarning) = 1
    /\ Count(unit.result, CodeWarning) = 0

\* on-chain, then social, then code flags of the arguments
ArgFlags ==
    OrEmpty(unit.arg.onChain.redFlags) \o OrEmpty(unit.arg.social.redFlags)
        \o OrEmpty(unit.arg.code.redFlags)

\* C16: the summary has the KEY RED FLAGS section exactly when one of the
\* three red-flag lists is non-empty.
C16_KeyRedFlagsSection ==
    Summarized =>
        (unit.result.keyRedFlags <=> ~NoneFlagged(unit.arg))

\* only code.redFlags was non-empty and the section is there
C16_Witness ==
    /\ Summarized
    /\ unit.arg.onChain.redFlags = NoFlags
    /\ unit.arg.social.redFlags = Flags(<<>>)
    /\ unit.arg.code.redFlags = Flags(<<FlagCode>>)
    /\ unit.result.keyRedFlags

\* C17: the summary lists the first min(5, n) flags of on-chain ++ social ++
\* code, verbatim and in that order, and has the '...and N more issues' line
\* exactly when n > 5, with N = n - 5.
C17_FirstFiveFlags ==
    Summarized =>
        LET n == Len(ArgFlags)
        IN  /\ Len(unit.result.listed) = Min(5, n)
            /\ \A k \in 1..Min(5, n) : unit.result.listed[k] = ArgFlags[k]
            /\ unit.result.more > 0 <=> n > 5
            /\ n > 5 => unit.result.more = n - 5

\* seven flags were given: five are listed and two are counted as more
C17_Witness ==
    /\ Summarized
    /\ Len(ArgFlags) = 7
    /\ unit.result.listed = <<FlagLP, FlagMintLower, FlagLP, FlagSocial, FlagSocial>>
    /\ unit.result.more = 2

\* the label of the band of a score given in tenths
LabelOf(t) == CASE t >= 800 -> "DO NOT BUY"
                [] t >= 600 /\ t < 800 -> "EXTREME CAUTION"
                [] t >= 400 /\ t < 600 -> "MODERATE CAUTION"
                [] OTHER -> "APPEARS SAFE"

\* the tier of a score given in tenths
TierOfTenths(t) == CASE t >= 800 -> "CRITICAL"
                     [] t >= 600 /\ t < 800 -> "HIGH"
                     [] t >= 400 /\ t < 600 -> "MEDIUM"
                     [] t >= 200 /\ t < 400 -> "LOW"
                     [] OTHER -> "SAFE"

\* C18: the summary ends with the label of the band of the score (>= 80 'DO
\* NOT BUY', >= 60 'EXTREME CAUTION', >= 40 'MODERATE CAUTION', else
\* 'APPEARS SAFE') and its headline gives the tier of the score and the
\* score rounded to the nearest integer.
C18_LabelAndHeadline ==
    Summarized =>
        LET t == unit.arg.riskScore.tenths
        IN  /\ unit.result.recommendation = LabelOf(t)
            /\ unit.result.level = TierOfTenths(t)
            /\ unit.result.score = (t + 5) \div 10

\* the score 79.5 is summarized as HIGH, 80/100, EXTREME CAUTION
C18_Witness ==
    /\ Summarized
    /\ unit.arg.riskScore = Dbl(795, 0)
    /\ unit.result.level = "HIGH"
    /\ unit.result.score = 80
    /\ unit.result.recommendation = "EXTREME CAUTION"

\* C19: normalizeScore(s) = min(100, max(0, s)) for every numeric s: the
\* result is in [0, 100], it is s when 0 <= s <= 100, 0 when s < 0 and 100
\* when s > 100 (so normalize(-5) = 0 and normalize(150) = 100), and
\* normalizing the result again leaves it as it is.
C19_NormalizeClamps ==
    (unit.fn = "normalizeScore" /\ unit.applied >= 1) =>
        LET s == unit.arg.val
        IN  /\ unit.first.kind = "number"
            /\ unit.first.val = Min(100, Max(0, s))
            /\ unit.first.val >= 0 /\ unit.first.val <= 100
            /\ (0 <= s /\ s <= 100) => unit.first.val = s
            /\ s < 0 => unit.first.val = 0
            /\ s > 100 => unit.first.val = 100
            /\ s = 0 - 5 => unit.first.val = 0
            /\ s = 150 => unit.first.val = 100
            /\ unit.applied = 2 => unit.result = unit.first

\* normalizeScore(150) gave 100 and normalizeScore(100) gave 100 again
C19_Witness ==
    /\ unit.fn = "normalizeScore"
    /\ unit.applied = 2
    /\ unit.arg = Num(150)
    /\ unit.first = Num(100)
    /\ unit.result = Num(100)

\* a sub-score that is undefined or NaN
NonNumeric(v) == v.kind # "number"
\* the result with a non-numeric riskScore taken as 0
ZeroIfNonNumeric(r) ==
    IF NonNumeric(r.riskScore) THEN [r EXCEPT !.riskScore = Num(0)] ELSE r

\* C20: a sub-score that is undefined or NaN is not rejected and is not
\* replaced by a value: it flows through normalization and weighting, the
\* aggregation does not fail and the composite score is NaN.
C20_NonNumericYieldsNaN ==
    \A c \in ReturnedCalls :
        LET a == outcome[c].report.analysis
        IN  (\/ NonNumeric(a.onChain.riskScore)
             \/ NonNumeric(a.social.riskScore)
             \/ NonNumeric(a.code.riskScore)) =>
                calculateRiskScore(a.onChain, a.social, a.code).nan

\* C20 as amended: a sub-score that is undefined or NaN is not rejected but
\* is taken as 0: a call whose three sub-analyzers were fulfilled returns a
\* report, and the composite of a report is a number, the same as that of
\* the results with every undefined or NaN sub-score replaced by 0.
C20_NonNumericTakenAsZero ==
    \A c \in Calls :
        /\ (pc[c] = "done" /\ \A i \in Analyzers : sub[c][i].state = "fulfilled") =>
               outcome[c].status = "returned"
        /\ outcome[c].status = "returned" =>
               LET a == outcome[c].report.analysis
                   composite == calculateRiskScore(a.onChain, a.social, a.code)
               IN  /\ ~composite.nan
                   /\ composite = calculateRiskScore(ZeroIfNonNumeric(a.onChain),
                                                     ZeroIfNonNumeric(a.social),
                                                     ZeroIfNonNumeric(a.code))
                   /\ a.onChain = sub[c][1].value
                   /\ a.social = sub[c][2].value
                   /\ a.code = sub[c][3].value

\* undefined, NaN and 100 were aggregated to 0.2 * 100 = 20
C20_Witness ==
    \E c \in ReturnedCalls :
        /\ outcome[c].report.analysis.onChain.riskScore = Undefined
        /\ outcome[c].report.analysis.social.riskScore = NaN
        /\ outcome[c].report.analysis.code.riskScore = Num(100)
        /\ outcome[c].report.riskScore = 20
        /\ outcome[c].report.riskLevel = "LOW"

\* the sub-analyzers of call c that have failed, in the order they failed
FailedInTime(c) ==
    LET Failed(i) == sub[c][i].state = "rejected"
    IN  SelectSeq(settled[c], Failed)

\* what call c must end with, given what its own collaborator calls gave back
OwnOutcome(c) ==
    IF info[c].state = "rejected" THEN Thrown(info[c].reason)
    ELSE IF info[c].value.isNull THEN Thrown(NotFoundError)
    ELSE IF FailedInTime(c) # <<>> THEN Thrown(sub[c][Head(FailedInTime(c))].reason)
    ELSE Returned(CompileReport(tokenMint[c], info[c].value,
                                sub[c][1].value, sub[c][2].value, sub[c][3].value))

\* C21: two analyzeToken calls in flight at the same time on the same
\* detector do not interfere: under every interleaving, the report or error
\* of a completed call is determined by its own argument and by what its own
\* collaborator calls gave back.
C21_NoInterference ==
    \A c \in Calls : pc[c] = "done" => outcome[c] = OwnOutcome(c)

\* both calls were started before either completed, and they returned
\* different reports, each with its own mint address
C21_Witness ==
    /\ Len(console) >= 2
    /\ console[1] = ConsoleLog(1, "Analyzing token")
    /\ console[2] = ConsoleLog(2, "Analyzing token")
    /\ outcome[1].status = "returned"
    /\ outcome[2].status = "returned"
    /\ outcome[1].report.riskScore = 66
    /\ outcome[1].report.mintAddress = "test-mint-address"
    /\ outcome[2].report.riskScore = 26
    /\ outcome[2].report.mintAddress = "invalid-token"

\* C25: when two or more sub-analyzers fail in the same call, the call fails
\* with the error of the one that failed first in time, not of the first in
\* argument order; the errors of those that fail later never reach the
\* caller.
C25_FirstFailureInTime ==
    \A c \in Calls :
        (pc[c] = "done" /\ Len(FailedInTime(c)) >= 2) =>
            /\ outcome[c] = Thrown(sub[c][Head(FailedInTime(c))].reason)
            /\ \A k \in ErrorEntries(c) :
                   console[k] = ConsoleError(c, sub[c][Head(FailedInTime(c))].reason.message)
            /\ Cardinality(ErrorEntries(c)) = 1

\* analyzeCode failed first and analyzeTokenEconomics after it: the call
\* failed with the error of analyzeCode
C25_Witness ==
    \E c \in Calls :
        /\ pc[c] = "done"
        /\ FailedInTime(c) = <<3, 1>>
        /\ outcome[c] = Thrown(CollaboratorError("analyzeCode"))

\* C26: in every returned report riskLevel, the first recommendation and the
\* tier word and closing label of the summary are consistent, all being
\* taken of the same unrounded weighted sum: CRITICAL with 'DO NOT BUY - HIGH
\* RUG PULL RISK' and 'DO NOT BUY', HIGH with 'EXTREME CAUTION - High risk
\* detected' and 'EXTREME CAUTION', MEDIUM with 'MODERATE CAUTION - Some red
\* flags present' and 'MODERATE CAUTION', LOW or SAFE with 'APPEARS
\* LEGITIMATE - Low risk detected' and 'APPEARS SAFE'.
C26_LevelHeadlineLabelAgree ==
    \A c \in ReturnedCalls :
        LET r == outcome[c].report
            Agree(levels, headline, label) ==
                /\ (r.riskLevel \in levels) <=> (r.recommendations[1] = headline)
                /\ (r.riskLevel \in levels) <=> (r.summary.recommendation = label)
        IN  /\ r.summary.level = r.riskLevel
            /\ Agree({"CRITICAL"}, "DO NOT BUY - HIGH RUG PULL RISK", "DO NOT BUY")
            /\ Agree({"HIGH"}, "EXTREME CAUTION - High risk detected", "EXTREME CAUTION")
            /\ Agree({"MEDIUM"}, "MODERATE CAUTION - Some red flags present",
                     "MODERATE CAUTION")
            /\ Agree({"LOW", "SAFE"}, "APPEARS LEGITIMATE - Low risk detected",
                     "APPEARS SAFE")

\* the sub-scores 100, 45, 80 weigh to 79.5: the report says 80 and yet HIGH,
\* 'EXTREME CAUTION - High risk detected' and 'EXTREME CAUTION'
C26_Witness ==
    \E c \in ReturnedCalls :
        /\ outcome[c].report.analysis.onChain.riskScore = Num(100)
        /\ outcome[c].report.analysis.social.riskScore = Num(45)
        /\ outcome[c].report.analysis.code.riskScore = Num(80)
        /\ outcome[c].report.riskScore = 80
        /\ outcome[c].report.riskLevel = "HIGH"
        /\ outcome[c].report.recommendations[1] = "EXTREME CAUTION - High risk detected"
        /\ outcome[c].report.summary.level = "HIGH"
        /\ outcome[c].report.summary.recommendation = "EXTREME CAUTION"

\* the summed percentage of the first three holders, in tenths
Top3Tenths(holders) ==
    SumTenths([k \in 1..Min(3, Len(holders)) |-> holders[k].tenths])

\* C24: analyzeHolderConcentration scores by the summed percentage p of the
\* first three holders: p > 90 gives 100, 70 < p <= 90 gives 75, 50 < p <= 70
\* gives 50, p <= 50 gives 0, and an empty list gives 50; the issues list is
\* non-empty exactly when the score is greater than 0.
C24_HolderConcentrationScore ==
    (unit.fn = "analyzeTokenEconomics" /\ unit.applied >= 1) =>
        LET holders == unit.arg.holders
            p == Top3Tenths(holders)
            r == unit.holderRisk
        IN  /\ Len(holders) = 0 => r.score = 50
            /\ (Len(holders) > 0 /\ p > 900) => r.score = 100
            /\ (Len(holders) > 0 /\ 700 < p /\ p <= 900) => r.score = 75
            /\ (Len(holders) > 0 /\ 500 < p /\ p <= 700) => r.score = 50
            /\ (Len(holders) > 0 /\ p <= 500) => r.score = 0
            /\ (r.issues # <<>>) <=> (r.score > 0)

\* the holders 30, 30, 30 and 10 sum to exactly 90 over the first three: the
\* score is 75 with one issue, the fourth holder not being counted
C24_Witness ==
    /\ unit.fn = "analyzeTokenEconomics"
    /\ unit.applied >= 1
    /\ unit.arg.holders = <<Dbl(300, 0), Dbl(300, 0), Dbl(300, 0), Dbl(100, 0)>>
    /\ unit.holderRisk.score = 75
    /\ Len(unit.holderRisk.issues) = 1

\* C27: on-chain flags are matched case-sensitively: the flag 'Mint authority
\* not renounced - developers can create unlimited tokens' of
\* analyzeMintAuthority yields no mint-authority warning, whereas the flag of
\* analyzeLiquidityPool yields the liquidity warning and the flags of
\* analyzeHolderConcentration yield the concentration warning.
C27_CaseSensitiveMatch ==
    (unit.fn = "analyzeTokenEconomics" /\ unit.applied = 2) =>
        /\ Count(unit.recommendations, MintWarning) = 0
        /\ Count(unit.recommendations, LiquidityWarning)
               = IF unit.arg.lpInfo.lpLocked THEN 0 ELSE 1
        /\ Count(unit.recommendations, ConcentrationWarning)
               = Len(unit.holderRisk.issues)

\* mint authority not renounced, the holders of the test (100.0%), liquidity
\* not locked: the three flags yield the concentration and the liquidity
\* warning only
C27_Witness ==
    /\ unit.fn = "analyzeTokenEconomics"
    /\ unit.applied = 2
    /\ ~unit.arg.tokenInfo.mintAuthorityRenounced
    /\ ~unit.arg.lpInfo.lpLocked
    /\ unit.arg.holders = <<Dbl(500, 0), Dbl(300, 0), Dbl(200, 0)>>
    /\ unit.result.redFlags.items[1] = IssueMintAuthority
    /\ unit.result.redFlags.items[2] =
           IssueTop3Prefix \o <<"1","0","0",".","0">> \o IssueTop3Middle
               \o WordExtreme \o IssueTop3Suffix
    /\ unit.result.redFlags.items[3] = IssueLiquidityPool
    /\ unit.result.riskScore = Num(100)
    /\ SubSeq(unit.recommendations, 3, Len(unit.recommendations))
           = <<ConcentrationWarning, LiquidityWarning>>

(***************************************************************************)
(* TokenResolver                                                           *)
(***************************************************************************)
KeyOf(r) == toLowerCase(resolve[r].symbol)
Begun(r) == resolve[r].pc \notin {"unused", "idle"}
ResolveReturned(r) == resolve[r].pc = "done" /\ ~resolve[r].thrown
IsMint(value) == value \notin {NoMint, Threw}

\* C29: resolveSymbolToMint caches successful resolutions only, under the
\* lowercased symbol: every cached value passed isValidPublicKey; a call made
\* after a call for the same symbol, in any letter case, returned a mint
\* returns that mint without fetching a list; a call made when every call for
\* its symbol that returned so far returned null fetches the lists again.
C29_CacheDecidesLaterCalls ==
    /\ \A key \in CacheKeys :
           tokenCache[key] # NoMint => isValidPublicKey(tokenCache[key])
    /\ \A r1, r2 \in Resolves :
           (/\ ResolveReturned(r2)
            /\ r1 \in resolve[r2].after
            /\ KeyOf(r1) = KeyOf(r2)
            /\ resolve[r1].result # NoMint)
           => resolve[r2].result = resolve[r1].result /\ resolve[r2].fetched = <<>>
    /\ \A r2 \in Resolves :
           (/\ Begun(r2)
            /\ \A r1 \in resolve[r2].after :
                   KeyOf(r1) = KeyOf(r2) => resolve[r1].result = NoMint)
           => resolve[r2].fetched # <<>>

\* C30: a call that missed the cache fetches the lists in their configured
\* order; a list whose search threw or returned null is followed by the next
\* list, a list that gave a mint is the last one fetched and its mint is what
\* the call returns; the call returns null only after all three lists and
\* reverseLookupOnChain, and it never throws.
C30_ListsInConfiguredOrder ==
    \A r \in Resolves :
        LET call == resolve[r]
            n == Len(call.fetched)
        IN  /\ ~call.thrown
            /\ \A i \in 1..n : call.fetched[i] = i
            /\ Len(call.found) \in {n - 1, n}
            /\ call.pc = "awaitList" => Len(call.found) = n - 1
            /\ \A i \in 1..Len(call.found) :
                   IF IsMint(call.found[i])
                   THEN /\ i = n
                        /\ call.pc = "done"
                        /\ call.result = call.found[i]
                        /\ call.found[i] = ListAddress(i, KeyOf(r))
                        /\ ~call.lookedUp
                   ELSE call.pc = "awaitList" => n > i
            /\ (call.pc = "done" /\ call.result = NoMint)
               => /\ call.fetched = <<1, 2, 3>>
                  /\ \A i \in 1..3 : ~IsMint(call.found[i])
                  /\ call.lookedUp
            /\ call.lookedUp => Len(call.found) = 3

\* 'BONK' missed the cache, the fetch of the first list failed, the second
\* list had no valid match and the third gave the mint the call returned
C30_Witness ==
    \E r \in Resolves :
        /\ resolve[r].pc = "done"
        /\ resolve[r].symbol = <<"B","O","N","K">>
        /\ resolve[r].cached = NoMint
        /\ resolve[r].fetched = <<1, 2, 3>>
        /\ resolve[r].found = <<Threw, NoMint, ListAddress(3, <<"b","o","n","k">>)>>
        /\ resolve[r].result = ListAddress(3, <<"b","o","n","k">>)

(***************************************************************************)
(* POST /api/bulk-check                                                    *)
(***************************************************************************)
Posted == bulk.symbols.items
Analyzed == IF Len(Posted) < BulkLimit THEN Len(Posted) ELSE BulkLimit
Responded == bulk.pc = "done"

\* C22: only the first 10 symbols posted are analyzed, one after another in
\* the order posted: the detector is invoked with the i-th symbol as the i-th
\* invocation, never for a place after the tenth and never before the result
\* of the invocation before is pushed; results[i].symbol is the i-th symbol
\* and the response has min(n, 10) results.  For a symbols value that is not
\* an array or is empty the status is 400 and the detector is not invoked.
C22_FirstTenInOrder ==
    /\ Len(bulk.invoked) <= BulkLimit
    /\ \A i \in 1..Len(bulk.invoked) : bulk.invoked[i] = Posted[i]
    /\ Len(bulk.invoked) \in {Len(bulk.results), Len(bulk.results) + 1}
    /\ \A i \in 1..Len(bulk.results) : bulk.results[i].symbol = Posted[i]
    /\ Responded =>
           IF bulk.symbols.isArray /\ Len(Posted) > 0
           THEN /\ bulk.status = 200
                /\ Len(bulk.results) = Analyzed
                /\ Len(bulk.invoked) = Analyzed
           ELSE /\ bulk.status = 400
                /\ bulk.invoked = <<>>
                /\ bulk.results = <<>>

\* twelve symbols were posted, the eleventh not a string: ten results
C22_Witness ==
    /\ Responded
    /\ Len(Posted) = 12
    /\ ~Posted[11].string
    /\ bulk.status = 200
    /\ Len(bulk.results) = 10
    /\ Len(bulk.invoked) = 10

\* C23: the analysis of a symbol that fails gives the entry {symbol, error}
\* in that symbol's place, every other symbol among the first 10 has the
\* entry of its own analysis, and the status is 200.
C23_FailureKeepsTheRest ==
    (Responded /\ bulk.symbols.isArray /\ Len(Posted) > 0)
    => /\ bulk.status = 200
       /\ Len(bulk.results) = Analyzed
       /\ \A i \in 1..Analyzed :
              IF analyzeTokenBySymbol(Posted[i]).threw
              THEN bulk.results[i] = ErrorEntry(Posted[i])
              ELSE /\ bulk.results[i].error = ""
                   /\ bulk.results[i].symbol = Posted[i]
                   /\ bulk.results[i].analysis = analyzeTokenBySymbol(Posted[i]).value
                   /\ bulk.results[i].analysis.tokenSymbol = Posted[i]

\* ['MOON', 42, 'FAKE']: HIGH, an error entry, CRITICAL
C23_Witness ==
    /\ Responded
    /\ Posted = <<MOON, NumberSymbol, FAKE>>
    /\ bulk.status = 200
    /\ bulk.results[1].analysis.riskLevel = "HIGH"
    /\ bulk.results[2] = ErrorEntry(NumberSymbol)
    /\ bulk.results[3].analysis.riskLevel = "CRITICAL"

(***************************************************************************)
(* analyzeToken with the collaborators of the constructor                  *)
(***************************************************************************)
\* C28: with the ChainAnalyzer, SocialAnalyzer and CodeAnalyzer of the
\* constructor no collaborator promise rejects, getTokenInfo never gives
\* null, nothing is written with console.error and every call that ends
\* returns a report; the riskScore of the on-chain result is a number from 0
\* to 100.
C28_ShippedNeverFails ==
    /\ \A k \in DOMAIN console : console[k].method # "error"
    /\ \A c \in Calls :
        /\ info[c].state # "rejected"
        /\ info[c].state = "fulfilled" => ~info[c].value.isNull
        /\ \A i \in Analyzers : sub[c][i].state # "rejected"
        /\ join[c].state # "rejected"
        /\ pc[c] = "done" => outcome[c].status = "returned"
        /\ sub[c][1].state = "fulfilled"
           => /\ sub[c][1].value.riskScore.kind = "number"
              /\ sub[c][1].value.riskScore.val \in 0..100

\* 'test-mint-address' is no valid address: analyzeTokenEconomics gave the
\* demo analysis of an unknown token and the call returned its report
C28_Witness ==
    /\ pc[1] = "done"
    /\ tokenMint[1] = "test-mint-address"
    /\ outcome[1].status = "returned"
    /\ sub[1][1].value.riskScore = Num(69)
    /\ Len(sub[1][1].value.redFlags.items) = 2
    /\ sub[1][3].value.riskScore = Num(99)

====
